---------------------------- MODULE Spec2Model ----------------------------
(***************************************************************************)
(* A model of the news-delivery-agent ranking and personalization core:    *)
(*   - URL deduplication (authController.js, scheduler.js)                 *)
(*   - the refresh scheduler and its isFetchingNews guard (scheduler.js)   *)
(*   - the personalization pipeline (personalizer.js)                      *)
(*   - the two rankers and the recency score (newsAnalyzer services)       *)
(* Each part has its own specification over the shared variables; the      *)
(* variables of the parts a specification does not exercise stay at their  *)
(* idle values.                                                            *)
(***************************************************************************)
EXTENDS Integers, Sequences, FiniteSets, TLC

VARIABLES
    fnIn,           \* the arguments of the function being applied
    fnOut,          \* what it returned
    fnPc,           \* "idle", or the name of the function that ran
    pIn,            \* personalizeNewsFeed: the articles argument
    pUser,          \* personalizeNewsFeed: the user argument
    pPc,            \* personalizeNewsFeed: "idle" | "awaitStats" | "done"
    pOut,           \* personalizeNewsFeed: how the call ended
    isFetchingNews, \* scheduler.js:19, the module-level guard
    started,        \* startNewsUpdateScheduler has run (the interval timer exists)
    calls,          \* one record per trigger fired so far, in firing order
    now,            \* the wall clock every `new Date()` reads, in minutes
    readingHistory, \* the stored user's readingHistory array (User.js:114)
    newsItems,      \* the NewsItem collection: the stored articles by id
    savedArticles,  \* savedArticles of each stored user (User.js:118)
    userHistory,    \* the UserHistory collection, one record per read
    deleted         \* history: what each deleteMany removed, and who had it saved

fnVars == <<fnIn, fnOut, fnPc>>
persVars == <<pIn, pUser, pPc, pOut>>
schedVars == <<isFetchingNews, started, calls>>
envVars == <<now, readingHistory>>
storeVars == <<newsItems, savedArticles, userHistory, deleted>>

(***************************************************************************)
(* Bounds of the model.                                                    *)
(***************************************************************************)
MaxDedupLen == 5    \* longest list handed to the URL filter
MaxCalls == 3       \* triggers (startup, interval, manual) per behaviour
MaxFetched == 11    \* most articles one fetch returns
MaxFeedLen == 5     \* longest feed handed to personalizeNewsFeed
MaxBreakingLen == 5 \* longest list handed to ensureBreakingNewsIncluded alone
MaxDivLen == 5      \* longest list handed to diversifyNewsFeed alone
MaxRankLen == 3     \* longest list handed to a ranker
MaxAgeHours == 310  \* oldest article handed to calculateRecencyScore, in hours
MaxRuns == 3        \* runs of the Scorer on one article
MaxTicks == 2       \* hours the clock advances while the Scorer is run
MaxGroupLen == 4    \* longest list handed to groupArticlesByCategory
MaxSegments == 3    \* runs of entries of one article in a stored reading history
MaxAnalyzeLen == 2  \* longest list handed to the backend's analyzeAndRankNews
MaxRequests == 3    \* markArticleAsRead requests per behaviour
MaxBoostLen == 3    \* longest list handed to a boost step alone
MaxCycles == 2      \* triggers per behaviour when termination of the cycles is checked
MaxDays == 2        \* days the clock advances while articles are saved and cleaned up

(***************************************************************************)
(* Generic helpers on sequences.                                           *)
(***************************************************************************)
Range(s) == {s[i] : i \in 1..Len(s)}

Min(a, b) == IF a < b THEN a ELSE b

\* Array.prototype.slice(from, to) with 0-based, end-exclusive indices
Slice(s, from, to) == SubSeq(s, from + 1, Min(to, Len(s)))

\* all sequences over S of length at most n
SeqsUpTo(S, n) == UNION {[1..k -> S] : k \in 0..n}

(***************************************************************************)
(* URL deduplication.                                                      *)
(* A raw article record is [n, url]: n is its position in the input (its   *)
(* identity), url is a string, the empty string, or NoUrl when the record  *)
(* has no url property.                                                    *)
(***************************************************************************)
NoUrl == "<no url>"

\* !article.url : undefined, null and "" are falsy
UrlFalsy(u) == u = NoUrl \/ u = ""

DedupUrls == {NoUrl, "", "u1", "u2"}

RECURSIVE FilterFirstSeen(_, _, _)
\* articles.filter(a => { if (!a.url || uniqueUrls.has(a.url)) return false;
\*                        uniqueUrls.add(a.url); return true; })
FilterFirstSeen(articles, i, uniqueUrls) ==
    IF i > Len(articles) THEN <<>>
    ELSE IF UrlFalsy(articles[i].url) \/ articles[i].url \in uniqueUrls
         THEN FilterFirstSeen(articles, i + 1, uniqueUrls)
         ELSE <<articles[i]>> \o
              FilterFirstSeen(articles, i + 1, uniqueUrls \cup {articles[i].url})

RECURSIVE FilterSeenOnly(_, _, _)
\* the filter without the !article.url test
FilterSeenOnly(articles, i, uniqueUrls) ==
    IF i > Len(articles) THEN <<>>
    ELSE IF articles[i].url \in uniqueUrls
         THEN FilterSeenOnly(articles, i + 1, uniqueUrls)
         ELSE <<articles[i]>> \o
              FilterSeenOnly(articles, i + 1, uniqueUrls \cup {articles[i].url})

removeDuplicateArticles_NoEmptyTest(articles) == FilterSeenOnly(articles, 1, {})

\* authController.js removeDuplicateArticles
removeDuplicateArticles(articles) == FilterFirstSeen(articles, 1, {})

\* scheduler.js fetchAndAnalyzeNews, "Remove duplicates by URL"
uniqueArticlesOf(allArticles) == FilterFirstSeen(allArticles, 1, {})

DedupInputs ==
    {[i \in 1..Len(us) |-> [n |-> i, url |-> us[i]]] : us \in SeqsUpTo(DedupUrls, MaxDedupLen)}

FnIdle == fnIn = <<>> /\ fnOut = <<>> /\ fnPc = "idle"

InitDedup ==
    /\ fnIn \in DedupInputs
    /\ fnOut = <<>>
    /\ fnPc = "idle"

\* fetchNewsBasedOnPreferences: const uniqueArticles = removeDuplicateArticles(allArticles)
CallRemoveDuplicateArticles ==
    /\ fnPc = "idle"
    /\ fnOut' = removeDuplicateArticles(fnIn)
    /\ fnPc' = "removeDuplicateArticles"
    /\ UNCHANGED fnIn

\* fetchAndAnalyzeNews: const uniqueArticles = allArticles.filter(...)
CallInlineFilter ==
    /\ fnPc = "idle"
    /\ fnOut' = uniqueArticlesOf(fnIn)
    /\ fnPc' = "fetchAndAnalyzeNews"
    /\ UNCHANGED fnIn

(***************************************************************************)
(* The refresh scheduler.                                                  *)
(* A call record is one invocation of fetchAndAnalyzeNews or of            *)
(* triggerManualUpdate:                                                    *)
(*   kind      "startup" | "interval" | "manual"                           *)
(*   sawBusy   the value of isFetchingNews when the trigger fired          *)
(*   pc        "skipped" | "fetching" | "analyzing" | "delaying" | "done"  *)
(*   fetched   the fetch of the categories was issued                      *)
(*   uniq      uniqueArticles, once the fetch resolved                     *)
(*   i         the batch loop's index                                      *)
(*   submitted the batches handed to analyzeAndRankNews, in order          *)
(*   failed    the batches (by index i) whose analysis rejected            *)
(*   fetchErr  the fetch rejected                                          *)
(*   result    what triggerManualUpdate resolved to: "none" | "true" |     *)
(*             "false"                                                     *)
(***************************************************************************)
BATCH_SIZE == 10

UrlPool == <<"a01", "a02", "a03", "a04", "a05", "a06", "a07", "a08", "a09", "a10",
             "a11", "a12", "a13", "a14", "a15", "a16", "a17", "a18", "a19", "a20",
             "a21", "a22", "a23", "a24", "a25", "a26", "a27", "a28", "a29", "a30">>

\* what Promise.all of the category fetches can flatten to: nothing, or n
\* records with distinct urls followed by a repeat of the first url and by a
\* record without url
Fetched(n) ==
    IF n = 0 THEN <<>>
    ELSE [i \in 1..(n + 2) |->
             [n |-> i,
              url |-> IF i <= n THEN UrlPool[i]
                      ELSE IF i = n + 1 THEN UrlPool[1] ELSE NoUrl]]

\* no article, one, a full batch, and a batch with a remainder
FetchSizes == {0, 1, BATCH_SIZE, MaxFetched}

FetchedLists == {Fetched(n) : n \in FetchSizes}

InBody(c) == c.pc \in {"fetching", "analyzing", "delaying"}

NewCall(kind, busy) ==
    [kind |-> kind, sawBusy |-> busy, pc |-> "skipped", fetched |-> FALSE,
     uniq |-> <<>>, i |-> 0, submitted |-> <<>>, failed |-> {}, fetchErr |-> FALSE,
     result |-> "none"]

\* fetchAndAnalyzeNews up to its first await, with the guard removed
fetchAndAnalyzeNewsEnter_NoGuard(kind) ==
    /\ isFetchingNews' = TRUE
    /\ calls' = Append(calls, [NewCall(kind, isFetchingNews) EXCEPT
                                  !.pc = "fetching", !.fetched = TRUE])

\* fetchAndAnalyzeNews up to its first await (scheduler.js:62-80): the guard,
\* setting the flag, issuing the fetches
fetchAndAnalyzeNewsEnter(kind) ==
    IF isFetchingNews
    THEN /\ calls' = Append(calls, NewCall(kind, TRUE))
         /\ UNCHANGED isFetchingNews
    ELSE /\ isFetchingNews' = TRUE
         /\ calls' = Append(calls, [NewCall(kind, FALSE) EXCEPT
                                       !.pc = "fetching", !.fetched = TRUE])

\* startNewsUpdateScheduler: fetch immediately, then arm the interval timer
StartScheduler ==
    /\ ~started
    /\ Len(calls) < MaxCalls
    /\ fetchAndAnalyzeNewsEnter("startup")
    /\ started' = TRUE

\* setInterval(fetchAndAnalyzeNews, UPDATE_INTERVAL) fires
IntervalTick ==
    /\ started
    /\ Len(calls) < MaxCalls
    /\ fetchAndAnalyzeNewsEnter("interval")
    /\ UNCHANGED started

\* triggerManualUpdate up to its first await: its own test of the flag, then
\* the call of fetchAndAnalyzeNews in the same turn of the event loop
ManualTrigger ==
    /\ Len(calls) < MaxCalls
    /\ IF isFetchingNews
       THEN /\ calls' = Append(calls, [NewCall("manual", TRUE) EXCEPT !.result = "false"])
            /\ UNCHANGED isFetchingNews
       ELSE fetchAndAnalyzeNewsEnter("manual")
    /\ UNCHANGED started

\* the finally block, and for a manual call the return true after the await
Finish(c) ==
    [c EXCEPT !.pc = "done",
              !.result = IF c.kind = "manual" THEN "true" ELSE "none"]

\* the head of the for loop at index i: submit the next batch or leave the loop
LoopAt(c, i) ==
    IF i < Len(c.uniq)
    THEN [c EXCEPT !.i = i, !.pc = "analyzing",
                   !.submitted = Append(c.submitted, Slice(c.uniq, i, i + BATCH_SIZE))]
    ELSE Finish([c EXCEPT !.i = i])

\* a guard that the end of the loop leaves as it is
FlagAfter_Stale(d) == isFetchingNews

\* the new value of the guard after call c moved to record d
FlagAfter(d) == IF d.pc = "done" THEN FALSE ELSE isFetchingNews

\* await Promise.all(fetchPromises) resolves: flatten, deduplicate, enter the loop
FetchResolve(k, all) ==
    /\ calls[k].pc = "fetching"
    /\ LET d == LoopAt([calls[k] EXCEPT !.uniq = uniqueArticlesOf(all)], 0)
       IN /\ calls' = [calls EXCEPT ![k] = d]
          /\ isFetchingNews' = FlagAfter(d)
    /\ UNCHANGED started

\* await Promise.all(fetchPromises) rejects: the outer catch, then finally
FetchReject(k) ==
    /\ calls[k].pc = "fetching"
    /\ calls' = [calls EXCEPT ![k] = Finish([calls[k] EXCEPT !.fetchErr = TRUE])]
    /\ isFetchingNews' = FALSE
    /\ UNCHANGED started

\* await newsAnalyzer.analyzeAndRankNews(batch, {}) resolves: start the delay
AnalyzeResolve(k) ==
    /\ calls[k].pc = "analyzing"
    /\ calls' = [calls EXCEPT ![k].pc = "delaying"]
    /\ UNCHANGED <<isFetchingNews, started>>

\* the inner catch leaving the loop instead of going on to the next batch
AnalyzeReject_AbortsLoop(k) ==
    /\ calls[k].pc = "analyzing"
    /\ calls' = [calls EXCEPT ![k] = Finish([calls[k] EXCEPT
                                                !.failed = calls[k].failed \cup {calls[k].i}])]
    /\ isFetchingNews' = FALSE
    /\ UNCHANGED started

\* it rejects: the inner catch, then the next iteration without a delay
AnalyzeReject(k) ==
    /\ calls[k].pc = "analyzing"
    /\ LET c == calls[k]
           d == LoopAt([c EXCEPT !.failed = c.failed \cup {c.i}], c.i + BATCH_SIZE)
       IN /\ calls' = [calls EXCEPT ![k] = d]
          /\ isFetchingNews' = FlagAfter(d)
    /\ UNCHANGED started

\* the 1000 ms timer fires: the next iteration
DelayElapsed(k) ==
    /\ calls[k].pc = "delaying"
    /\ LET d == LoopAt(calls[k], calls[k].i + BATCH_SIZE)
       IN /\ calls' = [calls EXCEPT ![k] = d]
          /\ isFetchingNews' = FlagAfter(d)
    /\ UNCHANGED started

SchedIdle == isFetchingNews = FALSE /\ started = FALSE /\ calls = <<>>

\* no stored article, no saved article, no recorded read
StoreIdle ==
    /\ newsItems = <<>>
    /\ savedArticles = <<>>
    /\ userHistory = <<>>
    /\ deleted = <<>>

\* the clock at the epoch of the model and a user who has read nothing
EnvIdle == now = 0 /\ readingHistory = <<>>

(***************************************************************************)
(* Text.  A string is a sequence of characters; toLowerCase maps the       *)
(* upper-case letters of the alphabet to their lower-case letters and      *)
(* leaves the rest.                                                        *)
(***************************************************************************)
UpperCaseLetters ==
    <<"A", "B", "C", "D", "E", "F", "G", "H", "I", "J", "K", "L", "M",
      "N", "O", "P", "Q", "R", "S", "T", "U", "V", "W", "X", "Y", "Z">>

LowerCaseLetters ==
    <<"a", "b", "c", "d", "e", "f", "g", "h", "i", "j", "k", "l", "m",
      "n", "o", "p", "q", "r", "s", "t", "u", "v", "w", "x", "y", "z">>

LowerChar(c) ==
    IF \E i \in 1..Len(UpperCaseLetters) : UpperCaseLetters[i] = c
    THEN LowerCaseLetters[CHOOSE i \in 1..Len(UpperCaseLetters) : UpperCaseLetters[i] = c]
    ELSE c

\* String.prototype.toLowerCase
toLowerCase(s) == [i \in 1..Len(s) |-> LowerChar(s[i])]

\* String.prototype.includes
includes(text, sub) ==
    \E i \in 0..(Len(text) - Len(sub)) : SubSeq(text, i + 1, i + Len(sub)) = sub

(***************************************************************************)
(* Sorting.  Array.prototype.sort is stable (ECMAScript 2019); with the    *)
(* comparator (a, b) => (b.compositeScore || 0) - (a.compositeScore || 0)  *)
(* it orders by descending score and keeps equal scores in array order.    *)
(***************************************************************************)
RECURSIVE InsertDesc(_, _)
\* x placed after every element of the sorted s whose key is >= x's key;
\* the elements are [k, v]: the sort key and the array element
InsertDesc(s, x) ==
    IF s = <<>> THEN <<x>>
    ELSE IF Head(s).k >= x.k
         THEN <<Head(s)>> \o InsertDesc(Tail(s), x)
         ELSE <<x>> \o s

RECURSIVE SortDescFrom(_, _, _)
SortDescFrom(s, i, acc) ==
    IF i > Len(s) THEN acc
    ELSE SortDescFrom(s, i + 1, InsertDesc(acc, s[i]))

RECURSIVE InsertDescBeforeEqual(_, _)
\* x placed before the elements of the sorted s whose key equals x's key
InsertDescBeforeEqual(s, x) ==
    IF s = <<>> THEN <<x>>
    ELSE IF Head(s).k > x.k
         THEN <<Head(s)>> \o InsertDescBeforeEqual(Tail(s), x)
         ELSE <<x>> \o s

RECURSIVE SortDescBeforeEqualFrom(_, _, _)
SortDescBeforeEqualFrom(s, i, acc) ==
    IF i > Len(s) THEN acc
    ELSE SortDescBeforeEqualFrom(s, i + 1, InsertDescBeforeEqual(acc, s[i]))

\* a descending sort that reverses the array order of equal keys
SortDescByKey_Unstable(s, keys) ==
    LET sorted == SortDescBeforeEqualFrom(
                      [i \in 1..Len(s) |-> [k |-> keys[i], v |-> s[i]]], 1, <<>>)
    IN [i \in 1..Len(s) |-> sorted[i].v]

\* list.sort((a, b) => keys[b] - keys[a]) for the elements' keys
SortDescByKey(s, keys) ==
    LET sorted == SortDescFrom([i \in 1..Len(s) |-> [k |-> keys[i], v |-> s[i]]], 1, <<>>)
    IN [i \in 1..Len(s) |-> sorted[i].v]

\* list.sort((a, b) => (b.compositeScore || 0) - (a.compositeScore || 0))
SortByCompositeScore(s) == SortDescByKey(s, [i \in 1..Len(s) |-> s[i].compositeScore])

(***************************************************************************)
(* The rankers.  Time is counted in minutes; `now' is what new Date()      *)
(* returns.  A timestamp field is <<>> when the record has none and <<t>>  *)
(* otherwise.  A score of the 0..1 scale is an integer number of           *)
(* 1/ScoreUnit, which makes every value the code computes exact.           *)
(***************************************************************************)
ScoreUnit == 60 * 36000

Max(a, b) == IF a > b THEN a ELSE b

\* (now - publishDate) / (1000 * 60 * 60), in minutes
AgeInMinutes(publishedAt, clock) == clock - publishedAt[1]

\* the 12-to-24-hour branch with the 2-to-12-hour branch's offset
calculateRecencyScore_WrongOffset(publishedAt, clock) ==
    IF publishedAt = <<>> THEN ScoreUnit \div 2
    ELSE LET age == AgeInMinutes(publishedAt, clock)
         IN IF age < 2 * 60 THEN ScoreUnit
            ELSE IF age < 12 * 60 THEN (9 * ScoreUnit) \div 10 - age * (ScoreUnit \div (120 * 60))
            ELSE IF age < 24 * 60 THEN (9 * ScoreUnit) \div 10 - age * (ScoreUnit \div (240 * 60))
            ELSE IF age < 48 * 60 THEN (7 * ScoreUnit) \div 10 - age * (ScoreUnit \div (480 * 60))
            ELSE IF age < 72 * 60 THEN (5 * ScoreUnit) \div 10 - age * (ScoreUnit \div (720 * 60))
            ELSE Max(ScoreUnit \div 10,
                     (4 * ScoreUnit) \div 10 - age * (ScoreUnit \div (1000 * 60)))

\* calculateRecencyScore of the weighted scheme
calculateRecencyScore(publishedAt, clock) ==
    IF publishedAt = <<>> THEN ScoreUnit \div 2
    ELSE LET age == AgeInMinutes(publishedAt, clock)
         IN IF age < 2 * 60 THEN ScoreUnit
            ELSE IF age < 12 * 60 THEN (9 * ScoreUnit) \div 10 - age * (ScoreUnit \div (120 * 60))
            ELSE IF age < 24 * 60 THEN (8 * ScoreUnit) \div 10 - age * (ScoreUnit \div (240 * 60))
            ELSE IF age < 48 * 60 THEN (7 * ScoreUnit) \div 10 - age * (ScoreUnit \div (480 * 60))
            ELSE IF age < 72 * 60 THEN (5 * ScoreUnit) \div 10 - age * (ScoreUnit \div (720 * 60))
            ELSE Max(ScoreUnit \div 10,
                     (4 * ScoreUnit) \div 10 - age * (ScoreUnit \div (1000 * 60)))

\* getCategoryKeywords: keywordMap[category.toLowerCase()] || []
getCategoryKeywords(category) ==
    LET c == toLowerCase(category)
    IN CASE
          c = <<"t", "e", "c", "h", "n", "o", "l", "o", "g", "y">> ->
              <<<<"t", "e", "c", "h">>,
                <<"s", "o", "f", "t", "w", "a", "r", "e">>,
                <<"h", "a", "r", "d", "w", "a", "r", "e">>, <<"a", "i">>,
                <<"a", "r", "t", "i", "f", "i", "c", "i", "a", "l", " ", "i", "n", "t", "e", "l", "l", "i", "g", "e", "n", "c", "e">>,
                <<"a", "p", "p">>, <<"d", "i", "g", "i", "t", "a", "l">>,
                <<"i", "n", "t", "e", "r", "n", "e", "t">>,
                <<"c", "y", "b", "e", "r">>,
                <<"c", "o", "m", "p", "u", "t", "e", "r">>>>
           [] c = <<"b", "u", "s", "i", "n", "e", "s", "s">> ->
              <<<<"m", "a", "r", "k", "e", "t">>,
                <<"s", "t", "o", "c", "k">>,
                <<"e", "c", "o", "n", "o", "m", "y">>,
                <<"f", "i", "n", "a", "n", "c", "e">>,
                <<"c", "o", "m", "p", "a", "n", "y">>,
                <<"t", "r", "a", "d", "e">>,
                <<"i", "n", "v", "e", "s", "t", "m", "e", "n", "t">>,
                <<"s", "t", "a", "r", "t", "u", "p">>,
                <<"e", "n", "t", "r", "e", "p", "r", "e", "n", "e", "u", "r">>>>
           [] c = <<"s", "c", "i", "e", "n", "c", "e">> ->
              <<<<"r", "e", "s", "e", "a", "r", "c", "h">>,
                <<"s", "t", "u", "d", "y">>,
                <<"d", "i", "s", "c", "o", "v", "e", "r", "y">>,
                <<"s", "c", "i", "e", "n", "t", "i", "s", "t">>,
                <<"e", "x", "p", "e", "r", "i", "m", "e", "n", "t">>,
                <<"s", "p", "a", "c", "e">>,
                <<"p", "h", "y", "s", "i", "c", "s">>,
                <<"c", "h", "e", "m", "i", "s", "t", "r", "y">>,
                <<"b", "i", "o", "l", "o", "g", "y">>>>
           [] c = <<"h", "e", "a", "l", "t", "h">> ->
              <<<<"m", "e", "d", "i", "c", "a", "l">>,
                <<"d", "o", "c", "t", "o", "r">>,
                <<"p", "a", "t", "i", "e", "n", "t">>,
                <<"h", "o", "s", "p", "i", "t", "a", "l">>,
                <<"d", "i", "s", "e", "a", "s", "e">>,
                <<"t", "r", "e", "a", "t", "m", "e", "n", "t">>,
                <<"m", "e", "d", "i", "c", "i", "n", "e">>,
                <<"h", "e", "a", "l", "t", "h", "c", "a", "r", "e">>,
                <<"w", "e", "l", "l", "n", "e", "s", "s">>>>
           [] c = <<"e", "n", "t", "e", "r", "t", "a", "i", "n", "m", "e", "n", "t">> ->
              <<<<"m", "o", "v", "i", "e">>, <<"f", "i", "l", "m">>,
                <<"m", "u", "s", "i", "c">>,
                <<"c", "e", "l", "e", "b", "r", "i", "t", "y">>,
                <<"a", "c", "t", "o", "r">>,
                <<"a", "c", "t", "r", "e", "s", "s">>,
                <<"h", "o", "l", "l", "y", "w", "o", "o", "d">>,
                <<"t", "v">>, <<"s", "h", "o", "w">>, <<"s", "t", "a", "r">>>>
           [] c = <<"s", "p", "o", "r", "t", "s">> ->
              <<<<"g", "a", "m", "e">>, <<"p", "l", "a", "y", "e", "r">>,
                <<"t", "e", "a", "m">>, <<"m", "a", "t", "c", "h">>,
                <<"t", "o", "u", "r", "n", "a", "m", "e", "n", "t">>,
                <<"c", "h", "a", "m", "p", "i", "o", "n", "s", "h", "i", "p">>,
                <<"a", "t", "h", "l", "e", "t", "e">>,
                <<"l", "e", "a", "g", "u", "e">>,
                <<"s", "c", "o", "r", "e">>>>
           [] c = <<"p", "o", "l", "i", "t", "i", "c", "s">> ->
              <<<<"g", "o", "v", "e", "r", "n", "m", "e", "n", "t">>,
                <<"p", "r", "e", "s", "i", "d", "e", "n", "t">>,
                <<"e", "l", "e", "c", "t", "i", "o", "n">>,
                <<"p", "a", "r", "t", "y">>, <<"v", "o", "t", "e">>,
                <<"c", "a", "m", "p", "a", "i", "g", "n">>,
                <<"p", "o", "l", "i", "c", "y">>,
                <<"c", "o", "n", "g", "r", "e", "s", "s">>,
                <<"s", "e", "n", "a", "t", "e">>,
                <<"d", "e", "m", "o", "c", "r", "a", "t">>,
                <<"r", "e", "p", "u", "b", "l", "i", "c", "a", "n">>>>
           [] c = <<"w", "o", "r", "l", "d">> ->
              <<<<"c", "o", "u", "n", "t", "r", "y">>,
                <<"i", "n", "t", "e", "r", "n", "a", "t", "i", "o", "n", "a", "l">>,
                <<"g", "l", "o", "b", "a", "l">>,
                <<"f", "o", "r", "e", "i", "g", "n">>,
                <<"n", "a", "t", "i", "o", "n">>,
                <<"d", "i", "p", "l", "o", "m", "a", "t", "i", "c">>,
                <<"e", "m", "b", "a", "s", "s", "y">>,
                <<"t", "r", "e", "a", "t", "y">>,
                <<"b", "o", "r", "d", "e", "r">>>>
           [] OTHER -> <<>>

\* the keywords of the list that occur in the text
MatchesIn(keywords, text) ==
    Cardinality({j \in 1..Len(keywords) : includes(text, keywords[j])})

RECURSIVE MatchScoreFrom(_, _, _)
\* userCategories.forEach(category => matchScore += matches * 0.1), in tenths
MatchScoreFrom(userCategories, text, i) ==
    IF i > Len(userCategories) THEN 0
    ELSE MatchesIn(getCategoryKeywords(userCategories[i]), text)
         + MatchScoreFrom(userCategories, text, i + 1)

\* calculateRelevanceScore with the category test ahead of the empty-text test
calculateRelevanceScore_CategoryFirst(article, userCategories) ==
    IF Len(userCategories) = 0 THEN ScoreUnit \div 2
    ELSE IF article.category # <<>> /\ toLowerCase(article.category) \in Range(userCategories)
    THEN (9 * ScoreUnit) \div 10
    ELSE LET text == toLowerCase(article.title \o <<" ">> \o article.description
                                 \o <<" ">> \o article.content)
         IN Min(ScoreUnit,
                (3 + MatchScoreFrom(userCategories, text, 1)) * (ScoreUnit \div 10))

\* calculateRelevanceScore
calculateRelevanceScore(article, userCategories) ==
    IF Len(userCategories) = 0 THEN ScoreUnit \div 2
    ELSE IF article.title = <<>> /\ article.description = <<>> /\ article.content = <<>>
    THEN (3 * ScoreUnit) \div 10
    ELSE IF article.category # <<>> /\ toLowerCase(article.category) \in Range(userCategories)
    THEN (9 * ScoreUnit) \div 10
    ELSE LET text == toLowerCase(article.title \o <<" ">> \o article.description
                                 \o <<" ">> \o article.content)
         IN Min(ScoreUnit,
                (3 + MatchScoreFrom(userCategories, text, 1)) * (ScoreUnit \div 10))

SOURCE_QUALITY_RATINGS ==
    <<[domain |-> <<"b", "b", "c", ".", "c", "o", "m">>, rating |-> 9],
      [domain |-> <<"r", "e", "u", "t", "e", "r", "s", ".", "c", "o", "m">>, rating |-> 9],
      [domain |-> <<"a", "p", "n", "e", "w", "s", ".", "c", "o", "m">>, rating |-> 9],
      [domain |-> <<"n", "y", "t", "i", "m", "e", "s", ".", "c", "o", "m">>, rating |-> 8],
      [domain |-> <<"w", "a", "s", "h", "i", "n", "g", "t", "o", "n", "p", "o", "s", "t", ".", "c", "o", "m">>, rating |-> 8],
      [domain |-> <<"t", "h", "e", "g", "u", "a", "r", "d", "i", "a", "n", ".", "c", "o", "m">>, rating |-> 8],
      [domain |-> <<"e", "c", "o", "n", "o", "m", "i", "s", "t", ".", "c", "o", "m">>, rating |-> 8],
      [domain |-> <<"w", "s", "j", ".", "c", "o", "m">>, rating |-> 7],
      [domain |-> <<"b", "l", "o", "o", "m", "b", "e", "r", "g", ".", "c", "o", "m">>, rating |-> 7],
      [domain |-> <<"n", "p", "r", ".", "o", "r", "g">>, rating |-> 8],
      [domain |-> <<"c", "n", "n", ".", "c", "o", "m">>, rating |-> 6],
      [domain |-> <<"f", "o", "x", "n", "e", "w", "s", ".", "c", "o", "m">>, rating |-> 5]>>

\* the index of the first occurrence of sub in s, 0 when there is none
IndexOf(s, sub) ==
    IF includes(s, sub)
    THEN CHOOSE i \in 1..(Len(s) - Len(sub) + 1) :
            /\ SubSeq(s, i, i + Len(sub) - 1) = sub
            /\ \A j \in 1..(i - 1) : SubSeq(s, j, j + Len(sub) - 1) # sub
    ELSE 0

\* the least / greatest element of a non-empty set of integers
Least(S) == CHOOSE i \in S : \A j \in S : i <= j
Greatest(S) == CHOOSE i \in S : \A j \in S : i >= j

\* new URL(domain).hostname of scheme://userinfo@host:port/path?query#fragment;
\* without a scheme the parse throws and the caller keeps the string
HostnameOf(domain) ==
    LET at == IndexOf(domain, <<":", "/", "/">>)
        rest == SubSeq(domain, at + 3, Len(domain))
        ends == {i \in 1..Len(rest) : rest[i] \in {"/", "?", "#"}}
        authority == IF ends = {} THEN rest ELSE SubSeq(rest, 1, Least(ends) - 1)
        ats == {i \in 1..Len(authority) : authority[i] = "@"}
        hostport == IF ats = {} THEN authority
                    ELSE SubSeq(authority, Greatest(ats) + 1, Len(authority))
        colons == {i \in 1..Len(hostport) : hostport[i] = ":"}
    IN IF at <= 1 THEN domain
       ELSE IF colons = {} THEN hostport
       ELSE SubSeq(hostport, 1, Least(colons) - 1)

\* calculateSourceQualityScore: the first rated domain the name contains
calculateSourceQualityScore(source) ==
    IF source = <<>> THEN ScoreUnit \div 2
    ELSE LET lower == toLowerCase(source)
             domain == IF includes(lower, <<":", "/", "/">>) THEN HostnameOf(lower) ELSE lower
             hits == {k \in 1..Len(SOURCE_QUALITY_RATINGS) :
                        includes(domain, SOURCE_QUALITY_RATINGS[k].domain)}
         IN IF hits = {} THEN ScoreUnit \div 2
            ELSE SOURCE_QUALITY_RATINGS[CHOOSE k \in hits : \A l \in hits : k <= l].rating
                 * (ScoreUnit \div 10)

\* SCORE_FACTORS, in tenths
SCORE_FACTORS == [RECENCY |-> 3, RELEVANCE |-> 4, SOURCE_QUALITY |-> 2, POPULARITY |-> 1]

\* the four sub-scores of one article (analysisDetails)
ScoresOf(article, categories, clock) ==
    [recency |-> calculateRecencyScore(article.publishedAt, clock),
     relevance |-> calculateRelevanceScore(article, categories),
     sourceQuality |-> calculateSourceQualityScore(
                           IF article.sourceName # <<>> THEN article.sourceName
                           ELSE article.url),
     popularity |-> IF article.popularity = <<>> \/ article.popularity = <<0>>
                    THEN ScoreUnit \div 2
                    ELSE article.popularity[1] * (ScoreUnit \div 10)]

\* the weighted sum with the popularity taken whole instead of at a tenth
TotalScore_UnitPopularity(scores) ==
    scores.recency * SCORE_FACTORS.RECENCY
    + scores.relevance * SCORE_FACTORS.RELEVANCE
    + scores.sourceQuality * SCORE_FACTORS.SOURCE_QUALITY
    + scores.popularity * 10

\* totalScore; its unit is 1/(10 * ScoreUnit)
TotalScore(scores) ==
    scores.recency * SCORE_FACTORS.RECENCY
    + scores.relevance * SCORE_FACTORS.RELEVANCE
    + scores.sourceQuality * SCORE_FACTORS.SOURCE_QUALITY
    + scores.popularity * SCORE_FACTORS.POPULARITY

\* the record analyzeAndRankNews makes of an article: the article's own
\* fields, score and analysisDetails
Scored(article, categories, clock) ==
    [article |-> article,
     score |-> TotalScore(ScoresOf(article, categories, clock)),
     analysisDetails |-> ScoresOf(article, categories, clock)]

\* analyzeAndRankNews of the weighted scheme
analyzeAndRankNews(articles, userPreferences, clock) ==
    IF Len(articles) = 0 THEN <<>>
    ELSE LET scored == [i \in 1..Len(articles) |->
                           Scored(articles[i], userPreferences.categories, clock)]
         IN SortDescByKey(scored, [i \in 1..Len(scored) |-> scored[i].score])

\* the age bonus of rankArticles; without a publication date the age is NaN
\* and no branch is taken
AgeBonus(publishedAt, clock) ==
    IF publishedAt = <<>> THEN 0
    ELSE LET age == AgeInMinutes(publishedAt, clock)
         IN IF age < 2 * 60 THEN 20
            ELSE IF age < 6 * 60 THEN 15
            ELSE IF age < 12 * 60 THEN 10
            ELSE IF age < 24 * 60 THEN 5
            ELSE 0

\* the text the template literal of part_001:151 leaves in place of the
\* category: its third placeholder is written \${...}, an escaped dollar sign
CategoryPlaceholder ==
    <<"$", "{", "a", "r", "t", "i", "c", "l", "e", ".", "c", "a", "t", "e", "g", "o", "r", "y", " ", "|", "|", " ", "'", "'", "}">>

\* `${article.title} ${article.description || ''} \${article.category || ''}`.toLowerCase()
RankText(article) ==
    toLowerCase(article.title \o <<" ">> \o article.description
                \o <<" ">> \o CategoryPlaceholder)

\* userInterests.filter(interest => articleText.includes(interest.toLowerCase())).length
InterestMatches(article, userInterests) ==
    Cardinality({j \in 1..Len(userInterests) :
                    includes(RankText(article), toLowerCase(userInterests[j]))})

\* the compositeScore rankArticles gives one article
AdditiveScore(article, userInterests, clock) ==
    (IF article.relevanceScore = 0 THEN 50 ELSE article.relevanceScore)
    + AgeBonus(article.publishedAt, clock)
    + (IF Len(userInterests) > 0 THEN InterestMatches(article, userInterests) * 5 ELSE 0)
    + (IF article.isBreakingNews THEN 15 ELSE 0)

\* the record rankArticles makes of an article: {...article, compositeScore}
WithCompositeScore(article, score) ==
    [article |-> article, compositeScore |-> score]

\* rankArticles of the additive scheme
rankArticles(articles, userInterests, clock) ==
    LET scored == [i \in 1..Len(articles) |->
                      WithCompositeScore(articles[i],
                                         AdditiveScore(articles[i], userInterests, clock))]
    IN SortDescByKey(scored, [i \in 1..Len(scored) |-> scored[i].compositeScore])

(***************************************************************************)
(* The personalizer (personalizer.js).                                     *)
(* An article is [id, title, description, content, category, source,       *)
(* compositeScore, isBreakingNews]; id is NoId when the record has no _id, *)
(* description and content are the empty string when absent, category and  *)
(* source are "" when absent.  A step that can throw returns               *)
(* [threw, list].                                                          *)
(***************************************************************************)
NoId == "<no id>"

\* a topicsToAvoid entry that is not a string (null in a [String] array)
NullTopic == <<"<null>">>

Ok(list) == [threw |-> FALSE, list |-> list]
Threw == [threw |-> TRUE, list |-> <<>>]

\* `${article.title} ${article.description || ''} ${article.content || ''}`.toLowerCase()
ArticleText(a) ==
    toLowerCase(a.title \o <<" ">> \o a.description \o <<" ">> \o a.content)

RECURSIVE SomeTopicIn(_, _, _)
\* topicsToAvoid.some(topic => articleText.includes(topic.toLowerCase())):
\* "yes", "no", or "throw" when a null topic is reached before a match
SomeTopicIn(text, topics, j) ==
    IF j > Len(topics) THEN "no"
    ELSE IF topics[j] = NullTopic THEN "throw"
    ELSE IF includes(text, toLowerCase(topics[j])) THEN "yes"
    ELSE SomeTopicIn(text, topics, j + 1)

RECURSIVE FilterAvoidFrom(_, _, _)
FilterAvoidFrom(articles, topics, i) ==
    IF i > Len(articles) THEN Ok(<<>>)
    ELSE LET hit == SomeTopicIn(ArticleText(articles[i]), topics, 1)
             rest == FilterAvoidFrom(articles, topics, i + 1)
         IN IF hit = "throw" \/ rest.threw THEN Threw
            ELSE IF hit = "yes" THEN rest
            ELSE Ok(<<articles[i]>> \o rest.list)

\* the filter that keeps every article
filterTopicsToAvoid_KeepAll(articles, topicsToAvoid) == Ok(articles)

\* personalizer.js filterTopicsToAvoid
filterTopicsToAvoid(articles, topicsToAvoid) ==
    IF Len(topicsToAvoid) = 0 THEN Ok(articles)
    ELSE FilterAvoidFrom(articles, topicsToAvoid, 1)

\* boostPreferredCategories without the trailing sort
boostPreferredCategories_NoSort(articles, preferredCategories) ==
    IF Len(preferredCategories) = 0 THEN articles
    ELSE [i \in 1..Len(articles) |->
             IF articles[i].category # "" /\ articles[i].category \in Range(preferredCategories)
             THEN [articles[i] EXCEPT !.compositeScore = @ + 10]
             ELSE articles[i]]

\* personalizer.js boostPreferredCategories
boostPreferredCategories(articles, preferredCategories) ==
    IF Len(preferredCategories) = 0 THEN articles
    ELSE SortByCompositeScore(
            [i \in 1..Len(articles) |->
                IF articles[i].category # "" /\ articles[i].category \in Range(preferredCategories)
                THEN [articles[i] EXCEPT !.compositeScore = @ + 10]
                ELSE articles[i]])

\* personalizer.js boostPreferredSources
boostPreferredSources(articles, preferredSources) ==
    IF Len(preferredSources) = 0 THEN articles
    ELSE SortByCompositeScore(
            [i \in 1..Len(articles) |->
                IF articles[i].source # "" /\ articles[i].source \in Range(preferredSources)
                THEN [articles[i] EXCEPT !.compositeScore = @ + 5]
                ELSE articles[i]])

\* categoryCounts[c] / sourcesCounts[s] after the counting pass
CategoryCount(articles, c) == Cardinality({i \in 1..Len(articles) : articles[i].category = c})
SourceCount(articles, s) == Cardinality({i \in 1..Len(articles) : articles[i].source = s})

\* count / totalArticles > 0.3
DominantCategories(articles) ==
    {c \in {articles[i].category : i \in 1..Len(articles)} :
        c # "" /\ CategoryCount(articles, c) * 10 > Len(articles) * 3}

DominantSources(articles) ==
    {s \in {articles[i].source : i \in 1..Len(articles)} :
        s # "" /\ SourceCount(articles, s) * 10 > Len(articles) * 3}

\* categoryCounter[article.category] / sourceCounter[article.source.name] right
\* after the scan has counted article i
CategoryCounterAt(articles, i) ==
    Cardinality({j \in 1..i : articles[j].category = articles[i].category})
SourceCounterAt(articles, i) ==
    Cardinality({j \in 1..i : articles[j].source = articles[i].source})

\* the adjustment without the category penalty
ScoreAdjustment_SourceOnly(articles, i) ==
    IF articles[i].source \in DominantSources(articles)
        /\ SourceCounterAt(articles, i) > 2 THEN 0 - 3 ELSE 0

\* scoreAdjustment of article i
ScoreAdjustment(articles, i) ==
    (IF articles[i].category \in DominantCategories(articles)
        /\ CategoryCounterAt(articles, i) > 3 THEN 0 - 5 ELSE 0)
    + (IF articles[i].source \in DominantSources(articles)
        /\ SourceCounterAt(articles, i) > 2 THEN 0 - 3 ELSE 0)

\* diversifyNewsFeed without the trailing sort
diversifyNewsFeed_NoSort(articles) ==
    IF Len(articles) < 5 THEN articles
    ELSE IF DominantCategories(articles) # {} \/ DominantSources(articles) # {}
    THEN [i \in 1..Len(articles) |->
             [articles[i] EXCEPT !.compositeScore = @ + ScoreAdjustment(articles, i)]]
    ELSE articles

\* personalizer.js diversifyNewsFeed
diversifyNewsFeed(articles) ==
    IF Len(articles) < 5 THEN articles
    ELSE IF DominantCategories(articles) # {} \/ DominantSources(articles) # {}
    THEN SortByCompositeScore(
            [i \in 1..Len(articles) |->
                [articles[i] EXCEPT !.compositeScore = @ + ScoreAdjustment(articles, i)]])
    ELSE articles

\* articles.slice(0, 3).some(article => article.isBreakingNews)
HasBreakingInTop3(articles) ==
    \E i \in 1..Min(3, Len(articles)) : articles[i].isBreakingNews

\* breakingNews[breakingNews.length - 1]: the last breaking article in list order
TopBreakingNews_Last(articles) ==
    articles[CHOOSE i \in 1..Len(articles) :
                /\ articles[i].isBreakingNews
                /\ \A j \in (i + 1)..Len(articles) : ~articles[j].isBreakingNews]

\* breakingNews[0]: the first breaking article in list order
TopBreakingNews(articles) ==
    articles[CHOOSE i \in 1..Len(articles) :
                /\ articles[i].isBreakingNews
                /\ \A j \in 1..(i - 1) : ~articles[j].isBreakingNews]

\* array.splice(at, 0, x)
SpliceIn(s, at, x) ==
    SubSeq(s, 1, Min(at, Len(s))) \o <<x>> \o SubSeq(s, Min(at, Len(s)) + 1, Len(s))

IsBreaking(a) == a.isBreakingNews

\* the step that leaves the list as it is
ensureBreakingNewsIncluded_Identity(articles) == Ok(articles)

\* the breaking article put at the head of the list instead of index 2
ensureBreakingNewsIncluded_AtHead(articles) ==
    IF Len(articles) = 0 THEN Ok(articles)
    ELSE IF SelectSeq(articles, IsBreaking) # <<>> /\ ~HasBreakingInTop3(articles)
    THEN IF \E i \in 1..Len(articles) : articles[i].id = NoId
         THEN Threw
         ELSE LET top == TopBreakingNews(articles)
                  without(a) == a.id # top.id
              IN Ok(SpliceIn(SelectSeq(articles, without), 0, top))
    ELSE Ok(articles)

\* the breaking article inserted at index 2 without being removed from its place
ensureBreakingNewsIncluded_NoRemoval(articles) ==
    IF Len(articles) = 0 THEN Ok(articles)
    ELSE IF SelectSeq(articles, IsBreaking) # <<>> /\ ~HasBreakingInTop3(articles)
    THEN IF \E i \in 1..Len(articles) : articles[i].id = NoId
         THEN Threw
         ELSE Ok(SpliceIn(articles, 2, TopBreakingNews(articles)))
    ELSE Ok(articles)

\* personalizer.js ensureBreakingNewsIncluded; article._id.toString() throws a
\* TypeError on a record without _id
ensureBreakingNewsIncluded(articles) ==
    IF Len(articles) = 0 THEN Ok(articles)
    ELSE IF SelectSeq(articles, IsBreaking) # <<>> /\ ~HasBreakingInTop3(articles)
    THEN IF \E i \in 1..Len(articles) : articles[i].id = NoId
         THEN Threw
         ELSE LET top == TopBreakingNews(articles)
                  without(a) == a.id # top.id
              IN Ok(SpliceIn(SelectSeq(articles, without), 2, top))
    ELSE Ok(articles)

\* the patterns getUserReadingPatterns returns without history or on failure
EmptyPatterns == [preferredCategories |-> <<>>, preferredSources |-> <<>>]

\* stats.categoryDistribution.slice(0, 5).map(item => item._id), and the same
\* for the sources (personalizer.js:140-147)
PatternsOf(stats) ==
    [preferredCategories |-> Slice(stats.categoryDistribution, 0, 5),
     preferredSources |-> Slice(stats.sourceDistribution, 0, 5)]

\* the steps of personalizeNewsFeed after the reading patterns are known
\* (personalizer.js:31-54), as [outcome, result, threwAt, ran]: ran lists the
\* steps that were started, threwAt names the step that threw
PipelineSteps(articles, topicsToAvoid, patterns) ==
    LET s1 == IF Len(topicsToAvoid) > 0
              THEN filterTopicsToAvoid(articles, topicsToAvoid) ELSE Ok(articles)
        ran1 == IF Len(topicsToAvoid) > 0 THEN <<"filter">> ELSE <<>>
        s2 == boostPreferredCategories(s1.list, patterns.preferredCategories)
        ran2 == IF Len(patterns.preferredCategories) > 0
                THEN Append(ran1, "boostCategories") ELSE ran1
        s3 == boostPreferredSources(s2, patterns.preferredSources)
        ran3 == IF Len(patterns.preferredSources) > 0
                THEN Append(ran2, "boostSources") ELSE ran2
        s4 == diversifyNewsFeed(s3)
        s5 == ensureBreakingNewsIncluded(s4)
        ran5 == ran3 \o <<"diversify", "breaking">>
    IN IF s1.threw THEN [threwAt |-> "filter", ran |-> ran1, list |-> <<>>, before |-> articles]
       ELSE IF s5.threw THEN [threwAt |-> "breaking", ran |-> ran5, list |-> <<>>, before |-> s4]
       ELSE [threwAt |-> "none", ran |-> ran5, list |-> s5.list, before |-> s4]

\* the try block without its catch: a throwing step rejects the promise
personalizeTail_NoCatch(articles, topicsToAvoid, patterns) ==
    LET p == PipelineSteps(articles, topicsToAvoid, patterns)
    IN IF p.threwAt # "none"
       THEN [outcome |-> "rejected", result |-> <<>>, threwAt |-> p.threwAt, ran |-> p.ran]
       ELSE [outcome |-> "resolved", result |-> p.list, threwAt |-> "none", ran |-> p.ran]

\* a catch that returns the list as the completed steps left it
personalizeTail_KeepPartial(articles, topicsToAvoid, patterns) ==
    LET p == PipelineSteps(articles, topicsToAvoid, patterns)
    IN IF p.threwAt # "none"
       THEN [outcome |-> "resolved", result |-> p.before, threwAt |-> p.threwAt, ran |-> p.ran]
       ELSE [outcome |-> "resolved", result |-> p.list, threwAt |-> "none", ran |-> p.ran]

\* personalizeNewsFeed from the end of the await to its return, the catch
\* included: "Return original articles if personalization fails"
personalizeTail(articles, topicsToAvoid, patterns) ==
    LET p == PipelineSteps(articles, topicsToAvoid, patterns)
    IN IF p.threwAt # "none"
       THEN [outcome |-> "resolved", result |-> articles, threwAt |-> p.threwAt, ran |-> p.ran]
       ELSE [outcome |-> "resolved", result |-> p.list, threwAt |-> "none", ran |-> p.ran]

(***************************************************************************)
(* personalizeNewsFeed as a state machine: the call, the await of the      *)
(* reading statistics, the return.                                         *)
(***************************************************************************)
IdPool == <<"i1", "i2", "i3", "i4", "i5", "i6", "i7", "i8">>

\* the article kinds the feeds are built from: k.hasId says whether the
\* record carries an _id
PersKinds ==
    {[title |-> <<"x">>, description |-> <<>>, content |-> <<>>,
      category |-> "A", source |-> "S", compositeScore |-> 30,
      isBreakingNews |-> FALSE, hasId |-> TRUE],
     [title |-> <<"x">>, description |-> <<>>, content |-> <<>>,
      category |-> "A", source |-> "S", compositeScore |-> 20,
      isBreakingNews |-> FALSE, hasId |-> TRUE],
     [title |-> <<"x">>, description |-> <<"X", "E", "l">>, content |-> <<>>,
      category |-> "B", source |-> "T", compositeScore |-> 25,
      isBreakingNews |-> TRUE, hasId |-> TRUE],
     [title |-> <<"x">>, description |-> <<>>, content |-> <<"x">>,
      category |-> "B", source |-> "T", compositeScore |-> 10,
      isBreakingNews |-> TRUE, hasId |-> TRUE],
     [title |-> <<"x", "e">>, description |-> <<"l", "x">>, content |-> <<>>,
      category |-> "A", source |-> "", compositeScore |-> 20,
      isBreakingNews |-> FALSE, hasId |-> FALSE]}

MkArticle(k, i) ==
    [id |-> IF k.hasId THEN IdPool[i] ELSE NoId,
     title |-> k.title, description |-> k.description, content |-> k.content,
     category |-> k.category, source |-> k.source,
     compositeScore |-> k.compositeScore, isBreakingNews |-> k.isBreakingNews]

PersInputs ==
    {[i \in 1..Len(ks) |-> MkArticle(ks[i], i)] : ks \in SeqsUpTo(PersKinds, MaxFeedLen)}

\* preferences.topicsToAvoid: none, one term in mixed case, a term followed by
\* a null entry
TopicLists == {<<>>, <<<<"e", "L">>>>, <<<<"e", "L">>, NullTopic>>}

NoUser == [present |-> FALSE, topicsToAvoid |-> <<>>, hasHistory |-> FALSE]

PersUsers ==
    {NoUser} \cup
    {[present |-> TRUE, topicsToAvoid |-> t, hasHistory |-> h] :
        t \in TopicLists, h \in BOOLEAN}

\* what UserHistory.getUserReadingStats can resolve to
StatsOptions ==
    {[categoryDistribution |-> <<>>, sourceDistribution |-> <<>>],
     [categoryDistribution |-> <<"A">>, sourceDistribution |-> <<>>],
     [categoryDistribution |-> <<"B", "A">>, sourceDistribution |-> <<"S">>]}

Pending ==
    [outcome |-> "pending", result |-> <<>>, threwAt |-> "none", ran |-> <<>>,
     patterns |-> EmptyPatterns, statsFailed |-> FALSE]

Outcome(t, patterns, statsFailed) ==
    [outcome |-> t.outcome, result |-> t.result, threwAt |-> t.threwAt, ran |-> t.ran,
     patterns |-> patterns, statsFailed |-> statsFailed]

Returned(list) ==
    [outcome |-> "resolved", result |-> list, threwAt |-> "none", ran |-> <<>>]

\* personalizeNewsFeed up to the await of the reading statistics; a user
\* without reading history gets the empty patterns at once
PersonalizeStart ==
    /\ pPc = "idle"
    /\ IF Len(pIn) = 0
       THEN pOut' = Outcome(Returned(<<>>), EmptyPatterns, FALSE) /\ pPc' = "done"
       ELSE IF ~pUser.present
       THEN pOut' = Outcome(Returned(pIn), EmptyPatterns, FALSE) /\ pPc' = "done"
       ELSE IF ~pUser.hasHistory
       THEN /\ pOut' = Outcome(personalizeTail(pIn, pUser.topicsToAvoid, EmptyPatterns),
                               EmptyPatterns, FALSE)
            /\ pPc' = "done"
       ELSE pPc' = "awaitStats" /\ UNCHANGED pOut
    /\ UNCHANGED <<pIn, pUser>>

\* getUserReadingStats resolves: the patterns are its top five, the pipeline runs
StatsResolve(stats) ==
    /\ pPc = "awaitStats"
    /\ pOut' = Outcome(personalizeTail(pIn, pUser.topicsToAvoid, PatternsOf(stats)),
                       PatternsOf(stats), FALSE)
    /\ pPc' = "done"
    /\ UNCHANGED <<pIn, pUser>>

\* getUserReadingStats rejects: getUserReadingPatterns catches and returns the
\* empty patterns, the pipeline runs
StatsReject ==
    /\ pPc = "awaitStats"
    /\ pOut' = Outcome(personalizeTail(pIn, pUser.topicsToAvoid, EmptyPatterns),
                       EmptyPatterns, TRUE)
    /\ pPc' = "done"
    /\ UNCHANGED <<pIn, pUser>>

PersIdle == pIn = <<>> /\ pUser = NoUser /\ pPc = "idle" /\ pOut = Pending

InitPers ==
    /\ pIn \in PersInputs
    /\ pUser \in PersUsers
    /\ pPc = "idle"
    /\ pOut = Pending

(***************************************************************************)
(* ensureBreakingNewsIncluded and diversifyNewsFeed on their own.          *)
(***************************************************************************)
PlainArticle(id, category, source, score, breaking) ==
    [id |-> id, title |-> <<"x">>, description |-> <<>>, content |-> <<>>,
     category |-> category, source |-> source, compositeScore |-> score,
     isBreakingNews |-> breaking]

\* the ids of a list of n records: distinct, or with one id repeated, or
\* with one record without id
IdAssignments(n) ==
    {[i \in 1..n |-> IdPool[i]]} \cup
    {[i \in 1..n |-> IF i = j THEN IdPool[k] ELSE IdPool[i]] : j \in 1..n, k \in 1..n} \cup
    {[i \in 1..n |-> IF i = j THEN NoId ELSE IdPool[i]] : j \in 1..n}

BreakingInputs ==
    UNION {{[i \in 1..n |-> PlainArticle(ids[i], "A", "S", 50 - i, flags[i])] :
                ids \in IdAssignments(n), flags \in [1..n -> BOOLEAN]} :
           n \in 0..MaxBreakingLen}

CallEnsureBreakingNewsIncluded ==
    /\ fnPc = "idle"
    /\ fnOut' = ensureBreakingNewsIncluded(fnIn)
    /\ fnPc' = "ensureBreakingNewsIncluded"
    /\ UNCHANGED fnIn

DivScores == {10, 16}

DivFields == {"A", "B"} \X {"", "S"} \X DivScores

\* the list whose i-th record has category, source and score f[i]
DivInput(f) ==
    [i \in 1..Len(f) |-> PlainArticle(IdPool[i], f[i][1], f[i][2], f[i][3], FALSE)]

CallDiversifyNewsFeed ==
    /\ fnPc = "idle"
    /\ fnOut' = diversifyNewsFeed(fnIn)
    /\ fnPc' = "diversifyNewsFeed"
    /\ UNCHANGED fnIn

(***************************************************************************)
(* The rankers and calculateRecencyScore on their own.  The arguments      *)
(* carry the clock reading the call makes (new Date()); every record of a  *)
(* list has n, its position in the input, as its identity.                 *)
(***************************************************************************)
\* pre-analyzed articles (NewsItem documents): relevanceScore 0..100, where
\* `|| 50` reads 0 as absent; publishedAt and now in minutes
RankKinds ==
    <<[title |-> <<"M", "a", "r", "k", "e", "t">>, description |-> <<>>,
       category |-> <<"b", "u", "s", "i", "n", "e", "s", "s">>, publishedAt |-> <<0 - 60>>,
       relevanceScore |-> 50, isBreakingNews |-> FALSE],
      [title |-> <<"A", "I", " ", "a", "p", "p">>, description |-> <<>>,
       category |-> <<"t", "e", "c", "h", "n", "o", "l", "o", "g", "y">>, publishedAt |-> <<0 - 13 * 60>>,
       relevanceScore |-> 65, isBreakingNews |-> FALSE],
      [title |-> <<"F", "l", "o", "o", "d">>, description |-> <<>>,
       category |-> <<>>, publishedAt |-> <<0 - 25 * 60>>,
       relevanceScore |-> 0, isBreakingNews |-> TRUE],
      [title |-> <<"V", "o", "t", "e">>, description |-> <<"r", "e", "c", "o", "u", "n", "t">>,
       category |-> <<"p", "o", "l", "i", "t", "i", "c", "s">>, publishedAt |-> <<0 - 30 * 60>>,
       relevanceScore |-> 80, isBreakingNews |-> FALSE],
      [title |-> <<"S", "t", "o", "r", "m">>, description |-> <<>>,
       category |-> <<"w", "o", "r", "l", "d">>, publishedAt |-> <<0 - 5 * 60>>,
       relevanceScore |-> 55, isBreakingNews |-> FALSE]>>

\* user.interests: none, one interest in upper case, and one more that occurs
\* in the text of CategoryPlaceholder
InterestLists == {<<>>, <<<<"A", "I">>>>, <<<<"A", "I">>, <<"c", "a", "t", "e", "g", "o", "r", "y">>>>}

\* raw fetched articles of the weighted scheme; popularity in tenths
WeightedKinds ==
    <<[title |-> <<"A", "I", " ", "a", "p", "p">>, description |-> <<>>,
       content |-> <<>>, category |-> <<>>,
       sourceName |-> <<>>,
       url |-> <<"h", "t", "t", "p", "s", ":", "/", "/", "w", "w", "w", ".", "b", "b", "c", ".", "c", "o", "m", "/", "a">>,
       publishedAt |-> <<0 - 60>>, popularity |-> <<>>],
      [title |-> <<"A", "i", " ", "A", "p", "p">>, description |-> <<"n", "e", "w">>,
       content |-> <<>>, category |-> <<>>,
       sourceName |-> <<>>,
       url |-> <<"h", "t", "t", "p", "s", ":", "/", "/", "u", "s", "e", "r", "@", "b", "b", "c", ".", "c", "o", "m", ":", "4", "4", "3", "/", "b">>,
       publishedAt |-> <<0 - 90>>, popularity |-> <<5>>],
      [title |-> <<"S", "t", "o", "c", "k", " ", "m", "a", "r", "k", "e", "t">>, description |-> <<>>,
       content |-> <<"t", "r", "a", "d", "e">>, category |-> <<"B", "u", "s", "i", "n", "e", "s", "s">>,
       sourceName |-> <<"C", "N", "N", ".", "c", "o", "m">>,
       url |-> <<>>,
       publishedAt |-> <<0 - 13 * 60>>, popularity |-> <<8>>],
      [title |-> <<>>, description |-> <<>>,
       content |-> <<>>, category |-> <<"t", "e", "c", "h", "n", "o", "l", "o", "g", "y">>,
       sourceName |-> <<>>,
       url |-> <<"f", "t", "p", ":", "/", "/", "f", "i", "l", "e", "s", ".", "e", "x", "a", "m", "p", "l", "e", "/", "r", "e", "u", "t", "e", "r", "s", ".", "c", "o", "m">>,
       publishedAt |-> <<>>, popularity |-> <<0>>],
      [title |-> <<"S", "t", "o", "r", "m">>, description |-> <<>>,
       content |-> <<>>, category |-> <<"w", "o", "r", "l", "d">>,
       sourceName |-> <<"D", "a", "i", "l", "y">>,
       url |-> <<>>,
       publishedAt |-> <<0 - 80 * 60>>, popularity |-> <<>>]>>

\* userPreferences.categories: absent or empty, one category, two categories
CategoryLists ==
    {<<>>, <<<<"t", "e", "c", "h", "n", "o", "l", "o", "g", "y">>>>, <<<<"t", "e", "c", "h", "n", "o", "l", "o", "g", "y">>, <<"b", "u", "s", "i", "n", "e", "s", "s">>>>}

\* the list whose i-th record is of kind ks[i]
ListOfKinds(kinds, ks) ==
    [i \in 1..Len(ks) |-> [n |-> i] @@ kinds[ks[i]]]

RankInputs ==
    {[scheme |-> "additive", articles |-> ListOfKinds(RankKinds, ks),
      userInterests |-> interests] :
        ks \in SeqsUpTo(1..Len(RankKinds), MaxRankLen), interests \in InterestLists}

WeightedInputs ==
    {[scheme |-> "weighted", articles |-> ListOfKinds(WeightedKinds, ks),
      userPreferences |-> [categories |-> categories]] :
        ks \in SeqsUpTo(1..Len(WeightedKinds), MaxRankLen), categories \in CategoryLists}

CallRankArticles ==
    /\ fnPc = "idle"
    /\ fnIn.scheme = "additive"
    /\ fnOut' = rankArticles(fnIn.articles, fnIn.userInterests, now)
    /\ fnPc' = "rankArticles"
    /\ UNCHANGED fnIn

CallAnalyzeAndRankNews ==
    /\ fnPc = "idle"
    /\ fnIn.scheme = "weighted"
    /\ fnOut' = analyzeAndRankNews(fnIn.articles, fnIn.userPreferences, now)
    /\ fnPc' = "analyzeAndRankNews"
    /\ UNCHANGED fnIn

\* the branch boundaries of calculateRecencyScore, and the age at which
\* 0.4 - age / 1000 reaches the floor, in hours
RecencyBreakpoints == {2, 12, 24, 48, 72, 300}

\* ages in minutes: one hour in the future, every hour of the first 80, every
\* tenth hour up to MaxAgeHours, and the minute before, at and after each
\* breakpoint
AgeSamples ==
    {60 * h : h \in (0 - 1)..80}
    \cup {600 * k : k \in 8..(MaxAgeHours \div 10)}
    \cup {60 * b + d : b \in RecencyBreakpoints, d \in {0 - 1, 0, 1}}

\* publishedAt arguments: none, or the date of an age
RecencyArguments == {<<>>} \cup {<<0 - a>> : a \in AgeSamples}

\* calculateRecencyScore applied to two publication dates at one clock reading
CallCalculateRecencyScore ==
    /\ fnPc = "idle"
    /\ fnOut' = [first |-> calculateRecencyScore(fnIn.first, now),
                 second |-> calculateRecencyScore(fnIn.second, now)]
    /\ fnPc' = "calculateRecencyScore"
    /\ UNCHANGED fnIn

\* the ages the weighted scheme is exercised at, in hours: the boundary ages
\* 0, 2, 6, 12, 24, 48, 72 and 200, and the oldest age of the model
ScoreAgeHours == {0, 2, 6, 12, 24, 48, 72, 200, MaxAgeHours}

\* publishedAt of a fetched article, the clock at 0: none, or the minute
\* before and the minute of each age
ScoreDates ==
    {<<>>} \cup {<<0 - (60 * h + d)>> : h \in ScoreAgeHours, d \in {0 - 1, 0}}

\* title, description, content and category of a fetched article
ScoreTexts ==
    {[title |-> <<>>, description |-> <<>>, content |-> <<>>,
      category |-> <<"t", "e", "c", "h", "n", "o", "l", "o", "g", "y">>],
     [title |-> <<"A", "I", " ", "a", "p", "p">>, description |-> <<>>, content |-> <<>>,
      category |-> <<>>],
     [title |-> <<"S", "t", "o", "c", "k", " ", "m", "a", "r", "k", "e", "t">>, description |-> <<>>, content |-> <<"t", "r", "a", "d", "e">>,
      category |-> <<"B", "u", "s", "i", "n", "e", "s", "s">>],
     [title |-> <<"T", "e", "c", "h", " ", "s", "o", "f", "t", "w", "a", "r", "e", " ", "h", "a", "r", "d", "w", "a", "r", "e">>, description |-> <<"A", "I", " ", "a", "p", "p", " ", "d", "i", "g", "i", "t", "a", "l">>,
      content |-> <<"i", "n", "t", "e", "r", "n", "e", "t", " ", "c", "y", "b", "e", "r">>, category |-> <<>>],
     [title |-> <<"S", "t", "o", "r", "m">>, description |-> <<>>, content |-> <<>>,
      category |-> <<"w", "o", "r", "l", "d">>]}

\* source.name and url of a fetched article: a top-rated source, the
\* lowest-rated one, an unrated one and none
ScoreSources ==
    {[sourceName |-> <<"B", "B", "C", ".", "c", "o", "m">>, url |-> <<>>],
     [sourceName |-> <<>>, url |-> <<"h", "t", "t", "p", "s", ":", "/", "/", "w", "w", "w", ".", "f", "o", "x", "n", "e", "w", "s", ".", "c", "o", "m", "/", "a">>],
     [sourceName |-> <<"D", "a", "i", "l", "y">>, url |-> <<>>],
     [sourceName |-> <<>>, url |-> <<>>]}

\* article.popularity in tenths: absent, or a value of the 0..1 scale
ScorePopularities == {<<>>, <<0>>, <<1>>, <<5>>, <<10>>}

\* userPreferences.categories: none, lower-case names, a capitalised name,
\* and one name twice
ScoreCategoryLists ==
    {<<>>, <<<<"t", "e", "c", "h", "n", "o", "l", "o", "g", "y">>>>, <<<<"t", "e", "c", "h", "n", "o", "l", "o", "g", "y">>, <<"b", "u", "s", "i", "n", "e", "s", "s">>>>,
     <<<<"T", "e", "c", "h", "n", "o", "l", "o", "g", "y">>>>, <<<<"t", "e", "c", "h", "n", "o", "l", "o", "g", "y">>, <<"t", "e", "c", "h", "n", "o", "l", "o", "g", "y">>>>}

\* the weighted scheme's arguments for one article
ScoreInput(text, source, publishedAt, popularity, categories) ==
    [scheme |-> "weighted",
     article |-> [n |-> 1, title |-> text.title, description |-> text.description,
                  content |-> text.content, category |-> text.category,
                  sourceName |-> source.sourceName, url |-> source.url,
                  publishedAt |-> publishedAt, popularity |-> popularity],
     userPreferences |-> [categories |-> categories]]

\* analyzeAndRankNews([article], userPreferences): the record its map callback
\* makes of the article, which the sort of a one-element list leaves in place
CallScoreArticle ==
    /\ fnPc = "idle"
    /\ fnIn.scheme = "weighted"
    /\ fnOut' = Scored(fnIn.article, fnIn.userPreferences.categories, now)
    /\ fnPc' = "analyzeAndRankNews"
    /\ UNCHANGED fnIn

\* the Scorer's arguments: one article of either scheme and the user context
ScorerInputs ==
    {[scheme |-> "additive", article |-> ListOfKinds(RankKinds, <<k>>)[1],
      userInterests |-> interests] :
        k \in 1..Len(RankKinds), interests \in InterestLists}
    \cup {[scheme |-> "weighted", article |-> ListOfKinds(WeightedKinds, <<k>>)[1],
           userPreferences |-> [categories |-> categories]] :
              k \in 1..Len(WeightedKinds), categories \in CategoryLists}

\* the composite score either scheme gives the article at a clock reading
CompositeScore(in, clock) ==
    IF in.scheme = "additive"
    THEN AdditiveScore(in.article, in.userInterests, clock)
    ELSE TotalScore(ScoresOf(in.article, in.userPreferences.categories, clock))

\* a run that adds the number of earlier runs to the score
RunScorer_CountsRuns ==
    /\ Len(fnOut) < MaxRuns
    /\ fnOut' = Append(fnOut, [at |-> now, score |-> CompositeScore(fnIn, now) + Len(fnOut)])
    /\ fnPc' = "scored"
    /\ UNCHANGED <<fnIn, now, readingHistory>>

\* one run of the Scorer on the article: rankArticles or analyzeAndRankNews
\* reads the clock (const now = new Date()) and computes the score
RunScorer ==
    /\ Len(fnOut) < MaxRuns
    /\ fnOut' = Append(fnOut, [at |-> now, score |-> CompositeScore(fnIn, now)])
    /\ fnPc' = "scored"
    /\ UNCHANGED <<fnIn, now, readingHistory>>

\* an hour passes
ClockTick ==
    /\ now < 60 * MaxTicks
    /\ now' = now + 60
    /\ UNCHANGED <<fnVars, readingHistory>>

\* article.category of the articles handed to the grouper: none, two
\* categories, and the grouper's own default as a category
GroupCategories == {<<>>, <<"t", "e", "c", "h", "n", "o", "l", "o", "g", "y">>, <<"b", "u", "s", "i", "n", "e", "s", "s">>, <<"u", "n", "c", "a", "t", "e", "g", "o", "r", "i", "z", "e", "d">>}

\* every list of up to MaxGroupLen articles; n is the position in the input
GroupInputs ==
    {[i \in 1..Len(cs) |-> [n |-> i, category |-> cs[i]]] :
        cs \in SeqsUpTo(GroupCategories, MaxGroupLen)}

\* article.category || 'uncategorized'
CategoryKey(article) ==
    IF article.category = <<>> THEN <<"u", "n", "c", "a", "t", "e", "g", "o", "r", "i", "z", "e", "d">> ELSE article.category

RECURSIVE GroupFrom_Unshift(_, _, _)
\* the reduce with each article put at the head of its bucket
GroupFrom_Unshift(articles, i, groups) ==
    IF i > Len(articles) THEN groups
    ELSE LET category == CategoryKey(articles[i])
         IN GroupFrom_Unshift(articles, i + 1,
                IF category \in DOMAIN groups
                THEN [groups EXCEPT ![category] = <<articles[i]>> \o @]
                ELSE groups @@ (category :> <<articles[i]>>))

groupArticlesByCategory_Unshift(articles) == GroupFrom_Unshift(articles, 1, <<>>)

RECURSIVE GroupFrom(_, _, _)
\* articles.reduce((groups, article) => { if (!groups[category])
\*     groups[category] = []; groups[category].push(article); return groups }, {})
\* from the i-th article on; groups maps each key to its array
GroupFrom(articles, i, groups) ==
    IF i > Len(articles) THEN groups
    ELSE LET category == CategoryKey(articles[i])
         IN GroupFrom(articles, i + 1,
                IF category \in DOMAIN groups
                THEN [groups EXCEPT ![category] = Append(@, articles[i])]
                ELSE groups @@ (category :> <<articles[i]>>))

\* groupArticlesByCategory (the same text in part_001 and part_009)
groupArticlesByCategory(articles) == GroupFrom(articles, 1, <<>>)

CallGroupArticlesByCategory ==
    /\ fnPc = "idle"
    /\ fnOut' = groupArticlesByCategory(fnIn)
    /\ fnPc' = "groupArticlesByCategory"
    /\ UNCHANGED fnIn

\* the fields detectBreakingNews reads of an article analyzeAndRankNews has
\* scored; isBreakingNews is <<>> when the article carries no flag
DetectTitles == {<<>>, <<"F", "l", "o", "o", "d">>, <<"B", "R", "E", "A", "K", "I", "N", "G", ":", " ", "F", "l", "o", "o", "d">>, <<"V", "o", "t", "e", ":", " ", "J", "u", "s", "t", " ", "I", "n">>}

\* fresh, the minute before and the minute at which the recency score falls
\* to 0.85, a day old, and no date
DetectDates == {<<>>, <<0>>, <<0 - (6 * 60 - 1)>>, <<0 - 6 * 60>>, <<0 - 30 * 60>>}

\* article.score in units of 1/(10 * ScoreUnit): 0.5, 0.9, just above 0.9
\* and the highest composite of the weighted scheme, 0.94
DetectScores == {5 * ScoreUnit, 9 * ScoreUnit, 9 * ScoreUnit + 1, 94 * (ScoreUnit \div 10)}

DetectFlags == {<<>>, <<TRUE>>, <<FALSE>>}

DetectInputs ==
    {<<[n |-> 1, title |-> title, publishedAt |-> publishedAt, score |-> score,
        isBreakingNews |-> flag]>> :
        title \in DetectTitles, publishedAt \in DetectDates,
        score \in DetectScores, flag \in DetectFlags}

\* breakingKeywords of detectBreakingNews
breakingKeywords ==
    <<<<"b", "r", "e", "a", "k", "i", "n", "g">>, <<"u", "r", "g", "e", "n", "t">>, <<"j", "u", "s", "t", " ", "i", "n">>, <<"a", "l", "e", "r", "t">>, <<"u", "p", "d", "a", "t", "e">>>>

\* breakingKeywords.some(keyword => titleLower.includes(keyword)) for
\* titleLower = (article.title || '').toLowerCase()
hasBreakingKeywords(article) ==
    \E k \in 1..Len(breakingKeywords) :
        includes(toLowerCase(article.title), breakingKeywords[k])

\* calculateRecencyScore(article.publishedAt) > 0.85
isRecent(article, clock) ==
    100 * calculateRecencyScore(article.publishedAt, clock) > 85 * ScoreUnit

\* (isRecent && hasBreakingKeywords) || article.score > 0.9
isBreaking(article, clock) ==
    (isRecent(article, clock) /\ hasBreakingKeywords(article))
    \/ article.score > 9 * ScoreUnit

\* detectBreakingNews: articles.map(article => ({...article, isBreakingNews: isBreaking}))
detectBreakingNews(articles, clock) ==
    [i \in 1..Len(articles) |->
        [articles[i] EXCEPT !.isBreakingNews = <<isBreaking(articles[i], clock)>>]]

CallDetectBreakingNews ==
    /\ fnPc = "idle"
    /\ fnOut' = detectBreakingNews(fnIn, now)
    /\ fnPc' = "detectBreakingNews"
    /\ UNCHANGED fnIn

\* .limit(50) of the history query and .slice(0, 10) of the sorted entries
HISTORY_WINDOW == 50
TOP_TOPICS == 10

\* item.article is <<>> (null) when the article of a history entry is gone,
\* and <<a>> for the populated article a
NoArticle == <<>>

\* the articles of the history entries: their tags arrays.  Among the tags
\* are two that are written as numbers, and the last two arrays hold twelve
\* different tags between them
HistoryArticles ==
    {NoArticle,
     <<[tags |-> <<<<"a", "i">>>>]>>,
     <<[tags |-> <<<<"2", "0", "2", "4">>>>]>>,
     <<[tags |-> <<<<"t", "e", "c", "h">>, <<"a", "i">>>>]>>,
     <<[tags |-> <<<<"a">>, <<"b">>, <<"c">>, <<"d">>, <<"e">>, <<"f">>>>]>>,
     <<[tags |-> <<<<"g">>, <<"h">>, <<"i">>, <<"j">>, <<"k">>, <<"7">>>>]>>}

\* how often in a row one article occurs in a stored history
SegmentLengths == {1, HISTORY_WINDOW - 1}

RECURSIVE Repeat(_, _)
Repeat(x, n) == IF n = 0 THEN <<>> ELSE <<x>> \o Repeat(x, n - 1)

RECURSIVE Concat(_)
Concat(ss) == IF ss = <<>> THEN <<>> ELSE Head(ss) \o Concat(Tail(ss))

\* the user's UserHistory documents, most recent first: up to MaxSegments
\* runs of entries of one article
HistoryOf(segments) ==
    Concat([i \in 1..Len(segments) |->
               Repeat([article |-> segments[i].article], segments[i].length)])

Digits == <<"0", "1", "2", "3", "4", "5", "6", "7", "8", "9">>

\* a property key that is an array index: the canonical decimal form of an
\* integer (here of up to 9 digits, all below 2^32 - 1)
IsArrayIndex(key) ==
    /\ Len(key) \in 1..9
    /\ \A i \in 1..Len(key) : key[i] \in Range(Digits)
    /\ Len(key) = 1 \/ key[1] # "0"

RECURSIVE NumberOf(_)
\* the integer an array-index key denotes
NumberOf(key) ==
    IF key = <<>> THEN 0
    ELSE 10 * NumberOf(SubSeq(key, 1, Len(key) - 1))
         + (CHOOSE d \in 0..9 : Digits[d + 1] = key[Len(key)])

RECURSIVE CountTagsFrom(_, _, _)
\* item.article.tags.forEach(tag => { tagCounts[tag] = (tagCounts[tag] || 0) + 1 });
\* tagCounts is the sequence of its [tag, count] properties in creation order
CountTagsFrom(tags, j, tagCounts) ==
    IF j > Len(tags) THEN tagCounts
    ELSE LET at == {p \in 1..Len(tagCounts) : tagCounts[p].tag = tags[j]}
         IN CountTagsFrom(tags, j + 1,
                IF at = {} THEN Append(tagCounts, [tag |-> tags[j], count |-> 1])
                ELSE [tagCounts EXCEPT ![Least(at)].count = @ + 1])

RECURSIVE CountHistoryFrom(_, _, _)
\* history.forEach(item => { if (item.article && item.article.tags) ... })
CountHistoryFrom(history, i, tagCounts) ==
    IF i > Len(history) THEN tagCounts
    ELSE LET next == IF history[i].article = NoArticle THEN tagCounts
                     ELSE CountTagsFrom(history[i].article[1].tags, 1, tagCounts)
         \* the test makes TLC compute the counts entry by entry
         IN IF Len(next) = 0 THEN CountHistoryFrom(history, i + 1, <<>>)
            ELSE CountHistoryFrom(history, i + 1, next)

\* Object.entries(tagCounts): the array-index keys in ascending numeric
\* order, then the other keys in creation order
ObjectEntries(tagCounts) ==
    LET indices == SelectSeq(tagCounts, LAMBDA e : IsArrayIndex(e.tag))
        others == SelectSeq(tagCounts, LAMBDA e : ~IsArrayIndex(e.tag))
    IN SortDescByKey(indices, [p \in 1..Len(indices) |-> 0 - NumberOf(indices[p].tag)])
       \o others

\* UserHistory.find({ user }).sort({ readAt: -1 }).limit(50) on the stored
\* history, which is kept most recent first
HistoryWindow(stored) == SubSeq(stored, 1, Min(HISTORY_WINDOW, Len(stored)))

\* extractTopicsOfInterest once the query has resolved
extractTopicsOfInterest(stored) ==
    LET history == HistoryWindow(stored)
    IN IF Len(history) = 0 THEN <<>>
       ELSE LET entries == ObjectEntries(CountHistoryFrom(history, 1, <<>>))
                sorted == SortDescByKey(entries, [p \in 1..Len(entries) |-> entries[p].count])
                top == SubSeq(sorted, 1, Min(TOP_TOPICS, Len(sorted)))
            IN [p \in 1..Len(top) |-> top[p].tag]

\* the history query resolves
ExtractTopicsResolve ==
    /\ fnPc = "idle"
    /\ fnOut' = extractTopicsOfInterest(fnIn)
    /\ fnPc' = "extractTopicsOfInterest"
    /\ UNCHANGED fnIn

\* the history query rejects: the catch logs and returns []
ExtractTopicsReject ==
    /\ fnPc = "idle"
    /\ fnOut' = <<>>
    /\ fnPc' = "extractTopicsOfInterest failed"
    /\ UNCHANGED fnIn

\* analyzeReadingHabits returns [] for a history of fewer than 5 entries
MIN_HABIT_HISTORY == 5

\* the populated articles of user.readingHistory entries
HabitArticles ==
    {NoArticle, <<[tags |-> <<<<"a", "i">>>>]>>, <<[tags |-> <<<<"t", "e", "c", "h">>, <<"a", "i">>>>]>>}

\* user.readingHistory: empty, one entry short of the threshold, at the
\* threshold
HabitHistoryLengths == {0, MIN_HABIT_HISTORY - 1, MIN_HABIT_HISTORY}

\* message.content of the completion: a JSON array of topics, an empty
\* array, prose, and JSON after a label
ChatContents ==
    {<<"[", "\"", "a", "i", "\"", ",", "\"", "t", "e", "c", "h", "\"", "]">>, <<"[", "]">>, <<"S", "u", "r", "e", ":", " ", "a", "i">>, <<"j", "s", "o", "n", ":", " ", "[", "\"", "a", "i", "\"", "]">>}

\* the position of the first double quote of s at or after i, 0 if none
NextQuote(s, i) ==
    IF \E j \in i..Len(s) : s[j] = "\""
    THEN Least({j \in i..Len(s) : s[j] = "\""})
    ELSE 0

RECURSIVE ParseStringsFrom(_, _, _)
\* the strings "..." separated by commas from position i of s on, up to the
\* closing bracket at the end of s; Threw when s does not go on that way
ParseStringsFrom(s, i, acc) ==
    IF i > Len(s) \/ s[i] # "\"" THEN Threw
    ELSE LET close == NextQuote(s, i + 1)
         IN IF close = 0 THEN Threw
            ELSE LET item == SubSeq(s, i + 1, close - 1)
                 IN IF close + 1 = Len(s) THEN Ok(Append(acc, item))
                    ELSE IF s[close + 1] = "," THEN ParseStringsFrom(s, close + 2, Append(acc, item))
                    ELSE Threw

\* JSON.parse(content) for a content that is an array of plain strings
\* written without spaces, or that is not JSON at all
JSONParse(content) ==
    IF Len(content) < 2 \/ content[1] # "[" \/ content[Len(content)] # "]"
    THEN Threw
    ELSE IF Len(content) = 2 THEN Ok(<<>>)
    ELSE ParseStringsFrom(content, 2, <<>>)

\* analyzeReadingHabits up to its await: [] without a user or with a short
\* history, otherwise the chat completion is requested
AnalyzeReadingHabitsStart ==
    /\ fnPc = "idle"
    /\ IF fnIn.user = <<>> \/ Len(fnIn.user[1].readingHistory) < MIN_HABIT_HISTORY
       THEN fnOut' = <<>> /\ fnPc' = "analyzeReadingHabits"
       ELSE fnPc' = "awaitChatCompletion" /\ UNCHANGED fnOut
    /\ UNCHANGED fnIn

\* the completion resolves: the parsed content is returned, or [] when
\* JSON.parse throws (the inner catch)
ChatCompletionResolve(content) ==
    /\ fnPc = "awaitChatCompletion"
    /\ fnOut' = IF JSONParse(content).threw THEN <<>> ELSE JSONParse(content).list
    /\ fnPc' = IF JSONParse(content).threw THEN "analyzeReadingHabits unparseable"
               ELSE "analyzeReadingHabits"
    /\ UNCHANGED fnIn

\* the completion rejects: the outer catch logs and returns []
ChatCompletionReject ==
    /\ fnPc = "awaitChatCompletion"
    /\ fnOut' = <<>>
    /\ fnPc' = "analyzeReadingHabits failed"
    /\ UNCHANGED fnIn

\* article.lastAnalyzedAt of a stored article: never analyzed, analyzed an
\* hour ago, analyzed 13 hours ago
LastAnalyzedOptions == {<<>>, <<0 - 60>>, <<0 - 13 * 60>>}

\* the arguments of the backend's analyzeAndRankNews: up to MaxAnalyzeLen
\* stored articles, whose n stands for their _id, and user.interests
AnalyzeInputs(ks, analyzed, interests) ==
    [articles |-> [i \in 1..Len(ks) |->
                      [n |-> i, lastAnalyzedAt |-> analyzed[i]] @@ RankKinds[ks[i]]],
     userInterests |-> interests]

\* !article.lastAnalyzedAt || (new Date() - new Date(article.lastAnalyzedAt)) > 12h
NeedsAnalysis(article, clock) ==
    \/ article.lastAnalyzedAt = <<>>
    \/ clock - article.lastAnalyzedAt[1] > 12 * 60

\* the entries of analysisResults.articles the completion may carry:
\* each names an article id; a relevanceScore of 0 and an isBreakingNews of
\* false are read as absent by `||`
AnalysisResultOptions ==
    {[id |-> id, relevanceScore |-> r, isBreakingNews |-> b] :
        id \in 1..2, r \in {0, 85}, b \in BOOLEAN}

\* the article after the assignments of the update loop
\* (relevanceScore || article.relevanceScore || 50, and likewise the flag)
UpdatedArticle(article, result, clock) ==
    [article EXCEPT
        !.relevanceScore = IF result.relevanceScore # 0 THEN result.relevanceScore
                           ELSE IF article.relevanceScore # 0 THEN article.relevanceScore
                           ELSE 50,
        !.isBreakingNews = result.isBreakingNews \/ article.isBreakingNews,
        !.lastAnalyzedAt = <<clock>>]

\* the update loop for one result: the article of articlesToAnalyze with
\* the result's id, if there is one, is updated in place
ApplyResult(articles, result, clock) ==
    [i \in 1..Len(articles) |->
        IF articles[i].n = result.id /\ NeedsAnalysis(articles[i], clock)
        THEN UpdatedArticle(articles[i], result, clock)
        ELSE articles[i]]

\* what JSON.parse returns for the contents the completion may carry: an
\* array of results, as the prompt asks for, or an object with the results
\* under `articles`
ParsedArray(results) == [shape |-> "array", items |-> results]
ParsedObject(results) == [shape |-> "object", articles |-> results]

\* analysisResults.articles || []: an array has no property `articles`
resultsOf(analysisResults) ==
    IF analysisResults.shape = "object" THEN analysisResults.articles ELSE <<>>

RECURSIVE ApplyResultsFrom(_, _, _, _)
\* the update loop from its j-th result on
ApplyResultsFrom(articles, results, j, clock) ==
    IF j > Len(results) THEN articles
    ELSE ApplyResultsFrom(ApplyResult(articles, results[j], clock), results, j + 1, clock)

\* the fallback of the catch block:
\* articles.sort((a, b) => new Date(b.publishedAt) - new Date(a.publishedAt))
SortByPublishedAt(articles) ==
    SortDescByKey(articles, [i \in 1..Len(articles) |-> articles[i].publishedAt[1]])

\* the catch block of the backend's analyzeAndRankNews
analyzeAndRankNewsCatch(articles, userInterests, clock) ==
    SortByPublishedAt(articles)

\* analyzeAndRankNews up to its first await
AnalyzeAndRankStart ==
    /\ fnPc = "idle"
    /\ IF Len(fnIn.articles) = 0
       THEN fnOut' = <<>> /\ fnPc' = "analyzeAndRankNews"
       ELSE IF \A i \in 1..Len(fnIn.articles) : ~NeedsAnalysis(fnIn.articles[i], now)
       THEN /\ fnOut' = rankArticles(fnIn.articles, fnIn.userInterests, now)
            /\ fnPc' = "analyzeAndRankNews"
       ELSE fnPc' = "awaitAnalysis" /\ UNCHANGED fnOut
    /\ UNCHANGED fnIn

\* the completion resolves with a text: a JSON array has no `articles`, and
\* a text JSON.parse rejects is replaced by { articles: [] }; either way no
\* article is updated and the articles are ranked
AnalysisResolveText(content) ==
    /\ fnPc = "awaitAnalysis"
    /\ fnOut' = rankArticles(fnIn.articles, fnIn.userInterests, now)
    /\ fnPc' = IF JSONParse(content).threw THEN "analyzeAndRankNews unparseable"
               ELSE "analyzeAndRankNews"
    /\ UNCHANGED fnIn

\* the completion resolves with an object whose articles array holds one
\* result: the article of that id is updated and saved, then all are
\* ranked; when the save rejects the catch block takes over
AnalysisResolveResult(result, saved) ==
    /\ fnPc = "awaitAnalysis"
    /\ LET updated == ApplyResult(fnIn.articles, result, now)
       IN IF saved \/ updated = fnIn.articles
          THEN /\ fnOut' = rankArticles(updated, fnIn.userInterests, now)
               /\ fnPc' = "analyzeAndRankNews"
          ELSE /\ fnOut' = analyzeAndRankNewsCatch(updated, fnIn.userInterests, now)
               /\ fnPc' = "analyzeAndRankNews save failed"
    /\ UNCHANGED fnIn

\* the completion resolves with a JSON array holding one result per entry,
\* in the structure the prompt requests: the update loop runs over
\* analysisResults.articles || [], every update is saved, the articles are
\* ranked; fnOut keeps the results received next to the list returned
AnalysisResolveArray(results) ==
    /\ fnPc = "awaitAnalysis"
    /\ LET updated == ApplyResultsFrom(fnIn.articles, resultsOf(ParsedArray(results)), 1, now)
       IN fnOut' = [results |-> results,
                    returned |-> rankArticles(updated, fnIn.userInterests, now)]
    /\ fnPc' = "analyzeAndRankNews array"
    /\ UNCHANGED fnIn

\* the completion rejects, or its response has no choices: the catch block
AnalysisReject ==
    /\ fnPc = "awaitAnalysis"
    /\ fnOut' = analyzeAndRankNewsCatch(fnIn.articles, fnIn.userInterests, now)
    /\ fnPc' = "analyzeAndRankNews failed"
    /\ UNCHANGED fnIn

\* "Limit reading history to 100 items"
HISTORY_LIMIT == 100

\* a history a user can have: its n entries were read one per minute, the
\* entry at position k being of article k, read k minutes before the epoch
StoredHistory(n) == [k \in 1..n |-> [article |-> k, readAt |-> 0 - k]]

\* the lengths a history starts with: none, one entry, one short of the
\* limit, at the limit
StoredHistoryLengths == {0, 1, HISTORY_LIMIT - 1, HISTORY_LIMIT}

\* the ids of the NewsItem collection: those of the stored histories and
\* two more
KnownArticleIds == 1..(HISTORY_LIMIT + 2)

\* req.params.articleId: the newest and the oldest article of a full
\* history, two articles never read, and an id no NewsItem has
RequestedArticleIds == {1, HISTORY_LIMIT, HISTORY_LIMIT + 1, HISTORY_LIMIT + 2, HISTORY_LIMIT + 3}

\* how the awaits of a request end once the article is found
MarkOutcomes == {"saved", "user not found", "user save rejected", "article save rejected"}

\* user.readingHistory kept whole
LimitHistory_NoLimit(history) == history

\* if (user.readingHistory.length > 100) user.readingHistory = user.readingHistory.slice(0, 100)
LimitHistory(history) ==
    IF Len(history) > HISTORY_LIMIT THEN SubSeq(history, 1, HISTORY_LIMIT) ELSE history

\* user.readingHistory.some(history => history.article.toString() === articleId)
alreadyRead(history, articleId) ==
    \E k \in 1..Len(history) : history[k].article = articleId

\* one markArticleAsRead request, from its arrival to its response; fnOut
\* is the list of the status codes sent so far
MarkArticleAsRead(articleId, outcome) ==
    /\ Len(fnOut) < MaxRequests
    /\ IF articleId \notin KnownArticleIds \/ outcome = "user not found"
       THEN fnOut' = Append(fnOut, 404) /\ UNCHANGED readingHistory
       ELSE IF alreadyRead(readingHistory, articleId)
       THEN /\ fnOut' = Append(fnOut, IF outcome = "article save rejected" THEN 500 ELSE 200)
            /\ UNCHANGED readingHistory
       ELSE IF outcome = "user save rejected"
       THEN fnOut' = Append(fnOut, 500) /\ UNCHANGED readingHistory
       ELSE /\ readingHistory' =
                   LimitHistory(<<[article |-> articleId, readAt |-> now]>> \o readingHistory)
            /\ fnOut' = Append(fnOut, IF outcome = "article save rejected" THEN 500 ELSE 200)
    /\ fnPc' = "markArticleAsRead"
    /\ UNCHANGED <<fnIn, now>>

\* relevanceScore of a stored article: the ends of the 0..100 scale, the
\* least score that is not read as absent, and the default
AdditiveRelevanceScores == {0, 1, 50, 100}

\* ages in minutes at which the age bonus changes, the minute before each,
\* and a fresh article
AdditiveAges == {0} \cup {60 * h + d : h \in {2, 6, 12, 24}, d \in {0 - 1, 0}}

\* title, description and category of a stored article
AdditiveTexts ==
    {[title |-> <<"M", "a", "r", "k", "e", "t">>, description |-> <<>>, category |-> <<"b", "u", "s", "i", "n", "e", "s", "s">>],
     [title |-> <<"A", "I", " ", "a", "p", "p">>, description |-> <<>>, category |-> <<"t", "e", "c", "h", "n", "o", "l", "o", "g", "y">>],
     [title |-> <<"S", "t", "o", "r", "m">>, description |-> <<"B", "u", "s", "i", "n", "e", "s", "s", " ", "n", "e", "w", "s">>, category |-> <<"w", "o", "r", "l", "d">>]}

\* user.interests
AdditiveInterestLists ==
    {<<>>, <<<<"A", "I">>>>, <<<<"b", "u", "s", "i", "n", "e", "s", "s">>>>, <<<<"A", "I">>, <<"b", "u", "s", "i", "n", "e", "s", "s">>>>}

\* the arguments of rankArticles for one stored article
AdditiveInput(text, relevanceScore, age, flag, interests) ==
    [scheme |-> "additive",
     articles |-> <<[n |-> 1, title |-> text.title, description |-> text.description,
                     category |-> text.category, publishedAt |-> <<0 - age>>,
                     relevanceScore |-> relevanceScore, isBreakingNews |-> flag]>>,
     userInterests |-> interests]

(***************************************************************************)
(* boostPreferredCategories and boostPreferredSources on their own.        *)
(* personalizeNewsFeed calls either only with a non-empty preferred list   *)
(* (personalizer.js:40, 45).                                               *)
(***************************************************************************)
BoostScores == {10, 12}

\* category, source name and compositeScore of an article; "" when absent
BoostFields == {"A", "B", ""} \X {"S", ""} \X BoostScores

\* readingPatterns.preferredCategories / preferredSources when not empty
PreferredCategoryLists == {<<"A">>, <<"A", "B">>, <<"C">>}
PreferredSourceLists == {<<"S">>, <<"T">>}

\* the list whose i-th record has category, source and score f[i]
BoostInput(f) ==
    [i \in 1..Len(f) |-> PlainArticle(IdPool[i], f[i][1], f[i][2], f[i][3], FALSE)]

CallBoostPreferredCategories ==
    /\ fnPc = "idle"
    /\ fnIn.step = "boostPreferredCategories"
    /\ fnOut' = boostPreferredCategories(fnIn.articles, fnIn.preferred)
    /\ fnPc' = "boostPreferredCategories"
    /\ UNCHANGED fnIn

CallBoostPreferredSources ==
    /\ fnPc = "idle"
    /\ fnIn.step = "boostPreferredSources"
    /\ fnOut' = boostPreferredSources(fnIn.articles, fnIn.preferred)
    /\ fnPc' = "boostPreferredSources"
    /\ UNCHANGED fnIn

\* ids of the articles of a ten-article list, the length at which three
\* articles are exactly 30% of the list
WideIdPool == <<"w1", "w2", "w3", "w4", "w5", "w6", "w7", "w8", "w9", "w10">>

\* a ten-article list in descending order: the first a articles of category
\* "A", the others spread over three categories, and source "S" at the
\* positions P
WideInput(a, P) ==
    [i \in 1..Len(WideIdPool) |->
        PlainArticle(WideIdPool[i],
                     IF i <= a THEN "A" ELSE <<"B", "C", "D">>[(i % 3) + 1],
                     IF i \in P THEN "S" ELSE "",
                     60 - 2 * i, FALSE)]

\* compositeScore of the articles handed to ensureBreakingNewsIncluded
BreakingScores == {10, 20, 30}

\* the list with distinct ids whose i-th article has this flag and this score
ScoredBreakingInput(flags, scores) ==
    [i \in 1..Len(flags) |-> PlainArticle(IdPool[i], "A", "S", scores[i], flags[i])]

(***************************************************************************)
(* Saved articles and the daily cleanup.  newsItems is the NewsItem        *)
(* collection, a list of [id, publishedAt, saveCount]; savedArticles maps  *)
(* each stored user to the list of article ids the user has saved.         *)
(* deleted is a history variable: one record per article a deleteMany      *)
(* removed, with the users who had it saved at that moment.                *)
(***************************************************************************)
RETENTION_DAYS == 30

MinutesPerDay == 24 * 60

StoreUsers == {"u1", "u2"}

StoreArticleIds == <<"n1", "n2">>

\* publishedAt of a stored article, the clock at 0: a day inside the
\* retention period, exactly at its end, a day past it
StoredDates == {0 - (RETENTION_DAYS + d) * MinutesPerDay : d \in {0 - 1, 0, 1}}

\* an article as the program stores it: saveCount is never written, so it
\* has the schema's default (NewsItem.js:95-98)
StoredItem(id, publishedAt) == [id |-> id, publishedAt |-> publishedAt, saveCount |-> 0]

\* the filter of deleteMany: { publishedAt: { $lt: thirtyDaysAgo }, saveCount: { $lt: 1 } }
CleanupFilter(item, thirtyDaysAgo) ==
    item.publishedAt < thirtyDaysAgo /\ item.saveCount < 1

\* userController.js saveArticle: 400 when the id is already in the list,
\* otherwise push and save
SaveArticle(u, articleId) ==
    /\ IF \E i \in 1..Len(savedArticles[u]) : savedArticles[u][i] = articleId
       THEN UNCHANGED savedArticles
       ELSE savedArticles' = [savedArticles EXCEPT ![u] = Append(@, articleId)]
    /\ UNCHANGED <<newsItems, userHistory, deleted>>

\* userController.js removeSavedArticle: filter the id out and save
RemoveSavedArticle(u, articleId) ==
    /\ LET keep(id) == id # articleId
       IN savedArticles' = [savedArticles EXCEPT ![u] = SelectSeq(@, keep)]
    /\ UNCHANGED <<newsItems, userHistory, deleted>>

\* scheduler.js cleanupOldNews: one deleteMany
CleanupOldNews ==
    LET thirtyDaysAgo == now - RETENTION_DAYS * MinutesPerDay
        matches(item) == CleanupFilter(item, thirtyDaysAgo)
        stays(item) == ~CleanupFilter(item, thirtyDaysAgo)
        removed == SelectSeq(newsItems, matches)
    IN /\ newsItems' = SelectSeq(newsItems, stays)
       /\ deleted' = deleted \o
              [i \in 1..Len(removed) |->
                  [id |-> removed[i].id, publishedAt |-> removed[i].publishedAt, at |-> now,
                   savedBy |-> {u \in StoreUsers :
                                   \E j \in 1..Len(savedArticles[u]) :
                                       savedArticles[u][j] = removed[i].id}]]
       /\ UNCHANGED <<savedArticles, userHistory>>

\* a day goes by
DayPasses ==
    /\ now < MaxDays * MinutesPerDay
    /\ now' = now + MinutesPerDay
    /\ UNCHANGED readingHistory

(***************************************************************************)
(* Reads and the reading patterns.  markArticleAsRead writes the user's    *)
(* readingHistory; getUserReadingPatterns takes the preferred categories   *)
(* and sources from UserHistory.getUserReadingStats, an aggregation over   *)
(* the UserHistory collection (userHistory, one [article] record per read  *)
(* of the user).  Nothing in the repository calls UserHistory.recordRead,  *)
(* the one writer of that collection, so no action adds to userHistory.    *)
(***************************************************************************)
\* category and source.name of the stored article with this id
StoredCategory(articleId) == IF articleId % 2 = 1 THEN "A" ELSE "B"
StoredSource(articleId) == "S"

\* the values of the list that some record of the collection has, by
\* descending number of records: { $group, $sort: { count: -1 } }
Distribution(records, values, ValueOf(_)) ==
    LET count(v) == Cardinality({k \in 1..Len(records) : ValueOf(records[k].article) = v})
        present(v) == count(v) > 0
        found == SelectSeq(values, present)
    IN SortDescByKey(found, [i \in 1..Len(found) |-> count(found[i])])

\* UserHistory.getUserReadingStats: the two distributions
getUserReadingStats(records) ==
    [categoryDistribution |-> Distribution(records, <<"A", "B">>, StoredCategory),
     sourceDistribution |-> Slice(Distribution(records, <<"S">>, StoredSource), 0, 5)]

\* getUserReadingPatterns: the empty patterns without reading history or when
\* the statistics query rejects, otherwise the top five of each distribution
getUserReadingPatterns(history, records, statsRejects) ==
    IF Len(history) = 0 \/ statsRejects THEN EmptyPatterns
    ELSE PatternsOf(getUserReadingStats(records))

\* the ranked articles a feed request hands to personalizeNewsFeed: without
\* source name, so that only the category boost can apply
ReadsFeeds ==
    {<<PlainArticle(IdPool[1], "B", "", 30, FALSE), PlainArticle(IdPool[2], "A", "", 25, FALSE)>>,
     <<PlainArticle(IdPool[1], "A", "", 30, FALSE), PlainArticle(IdPool[2], "C", "", 25, FALSE),
       PlainArticle(IdPool[3], "A", "", 20, TRUE)>>}

\* getPersonalizedNewsFeed's call of personalizeNewsFeed for the stored user,
\* from the call to its return
GetPersonalizedFeed(feed, statsRejects) ==
    /\ pPc = "idle"
    /\ pIn' = feed
    /\ pUser' = [present |-> TRUE, topicsToAvoid |-> <<>>,
                 hasHistory |-> Len(readingHistory) > 0]
    /\ LET patterns == getUserReadingPatterns(readingHistory, userHistory, statsRejects)
       IN pOut' = Outcome(personalizeTail(feed, <<>>, patterns), patterns,
                          statsRejects /\ Len(readingHistory) > 0)
    /\ pPc' = "done"

(***************************************************************************)
(* Specifications.                                                         *)
(***************************************************************************)
vars == <<fnVars, schedVars, persVars, envVars, storeVars>>

\* the scheduler: the state after the module is loaded
Init ==
    /\ SchedIdle
    /\ StoreIdle
    /\ EnvIdle
    /\ FnIdle
    /\ PersIdle

Next ==
    \/ StartScheduler /\ UNCHANGED <<fnVars, persVars, envVars, storeVars>>
    \/ IntervalTick /\ UNCHANGED <<fnVars, persVars, envVars, storeVars>>
    \/ ManualTrigger /\ UNCHANGED <<fnVars, persVars, envVars, storeVars>>
    \/ \E k \in 1..Len(calls), all \in FetchedLists :
           FetchResolve(k, all) /\ UNCHANGED <<fnVars, persVars, envVars, storeVars>>
    \/ \E k \in 1..Len(calls) : FetchReject(k) /\ UNCHANGED <<fnVars, persVars, envVars, storeVars>>
    \/ \E k \in 1..Len(calls) : AnalyzeResolve(k) /\ UNCHANGED <<fnVars, persVars, envVars, storeVars>>
    \/ \E k \in 1..Len(calls) : AnalyzeReject(k) /\ UNCHANGED <<fnVars, persVars, envVars, storeVars>>
    \/ \E k \in 1..Len(calls) : DelayElapsed(k) /\ UNCHANGED <<fnVars, persVars, envVars, storeVars>>

Spec == Init /\ [][Next]_vars

\* the URL filters applied to every short list of raw records
InitDedupSpec ==
    /\ InitDedup
    /\ SchedIdle
    /\ StoreIdle
    /\ EnvIdle
    /\ PersIdle

NextDedup ==
    \/ CallRemoveDuplicateArticles /\ UNCHANGED <<schedVars, storeVars, persVars, envVars>>
    \/ CallInlineFilter /\ UNCHANGED <<schedVars, storeVars, persVars, envVars>>

SpecDedup == InitDedupSpec /\ [][NextDedup]_vars

\* personalizeNewsFeed called on every feed and user of the bounds
InitPersSpec ==
    /\ InitPers
    /\ SchedIdle
    /\ StoreIdle
    /\ EnvIdle
    /\ FnIdle

NextPers ==
    \/ PersonalizeStart /\ UNCHANGED <<schedVars, storeVars, fnVars, envVars>>
    \/ \E stats \in StatsOptions : StatsResolve(stats) /\ UNCHANGED <<schedVars, storeVars, fnVars, envVars>>
    \/ StatsReject /\ UNCHANGED <<schedVars, storeVars, fnVars, envVars>>

SpecPers == InitPersSpec /\ [][NextPers]_vars

\* ensureBreakingNewsIncluded applied to every list of the bounds
InitBreakingSpec ==
    /\ fnIn \in BreakingInputs
    /\ fnOut = <<>>
    /\ fnPc = "idle"
    /\ SchedIdle
    /\ StoreIdle
    /\ EnvIdle
    /\ PersIdle

NextBreaking == CallEnsureBreakingNewsIncluded /\ UNCHANGED <<schedVars, storeVars, persVars, envVars>>

SpecBreaking == InitBreakingSpec /\ [][NextBreaking]_vars

\* diversifyNewsFeed applied to every list of the bounds
InitDiversifySpec ==
    /\ \E n \in 0..MaxDivLen : \E f \in [1..n -> DivFields] : fnIn = DivInput(f)
    /\ fnOut = <<>>
    /\ fnPc = "idle"
    /\ SchedIdle
    /\ StoreIdle
    /\ EnvIdle
    /\ PersIdle

NextDiversify == CallDiversifyNewsFeed /\ UNCHANGED <<schedVars, storeVars, persVars, envVars>>

SpecDiversify == InitDiversifySpec /\ [][NextDiversify]_vars

\* the two rankers applied to every list of the bounds
InitRankSpec ==
    /\ fnIn \in RankInputs \cup WeightedInputs
    /\ fnOut = <<>>
    /\ fnPc = "idle"
    /\ SchedIdle
    /\ StoreIdle
    /\ EnvIdle
    /\ PersIdle

NextRank ==
    \/ CallRankArticles /\ UNCHANGED <<schedVars, storeVars, persVars, envVars>>
    \/ CallAnalyzeAndRankNews /\ UNCHANGED <<schedVars, storeVars, persVars, envVars>>

SpecRank == InitRankSpec /\ [][NextRank]_vars

\* calculateRecencyScore applied to every pair of sampled publication dates
InitRecencySpec ==
    /\ \E a \in RecencyArguments, b \in RecencyArguments :
           fnIn = [first |-> a, second |-> b]
    /\ fnOut = <<>>
    /\ fnPc = "idle"
    /\ SchedIdle
    /\ StoreIdle
    /\ EnvIdle
    /\ PersIdle

NextRecency == CallCalculateRecencyScore /\ UNCHANGED <<schedVars, storeVars, persVars, envVars>>

SpecRecency == InitRecencySpec /\ [][NextRecency]_vars

\* the weighted scheme applied to one article of every combination of
\* publication date, text, source, popularity and category list
InitScoreSpec ==
    /\ \E text \in ScoreTexts, source \in ScoreSources, publishedAt \in ScoreDates,
          popularity \in ScorePopularities, categories \in ScoreCategoryLists :
           fnIn = ScoreInput(text, source, publishedAt, popularity, categories)
    /\ fnOut = <<>>
    /\ fnPc = "idle"
    /\ SchedIdle
    /\ StoreIdle
    /\ EnvIdle
    /\ PersIdle

NextScore == CallScoreArticle /\ UNCHANGED <<schedVars, storeVars, persVars, envVars>>

SpecScore == InitScoreSpec /\ [][NextScore]_vars

\* the Scorer run repeatedly on one article while the clock advances
InitScorerSpec ==
    /\ fnIn \in ScorerInputs
    /\ fnOut = <<>>
    /\ fnPc = "idle"
    /\ SchedIdle
    /\ StoreIdle
    /\ EnvIdle
    /\ PersIdle

NextScorer ==
    \/ RunScorer /\ UNCHANGED <<schedVars, storeVars, persVars>>
    \/ ClockTick /\ UNCHANGED <<schedVars, storeVars, persVars>>

SpecScorer == InitScorerSpec /\ [][NextScorer]_vars

\* groupArticlesByCategory applied to every list of the bounds
InitGroupSpec ==
    /\ fnIn \in GroupInputs
    /\ fnOut = <<>>
    /\ fnPc = "idle"
    /\ SchedIdle
    /\ StoreIdle
    /\ EnvIdle
    /\ PersIdle

NextGroup == CallGroupArticlesByCategory /\ UNCHANGED <<schedVars, storeVars, persVars, envVars>>

SpecGroup == InitGroupSpec /\ [][NextGroup]_vars

\* detectBreakingNews applied to one scored article of every combination of
\* title, publication date, score and flag
InitDetectSpec ==
    /\ fnIn \in DetectInputs
    /\ fnOut = <<>>
    /\ fnPc = "idle"
    /\ SchedIdle
    /\ StoreIdle
    /\ EnvIdle
    /\ PersIdle

NextDetect == CallDetectBreakingNews /\ UNCHANGED <<schedVars, storeVars, persVars, envVars>>

SpecDetect == InitDetectSpec /\ [][NextDetect]_vars

\* extractTopicsOfInterest on every stored history of the bounds
InitTopicsSpec ==
    /\ \E n \in 0..MaxSegments :
           \E segments \in [1..n -> [article : HistoryArticles, length : SegmentLengths]] :
               fnIn = HistoryOf(segments)
    /\ fnOut = <<>>
    /\ fnPc = "idle"
    /\ SchedIdle
    /\ StoreIdle
    /\ EnvIdle
    /\ PersIdle

NextTopics ==
    \/ ExtractTopicsResolve /\ UNCHANGED <<schedVars, storeVars, persVars, envVars>>
    \/ ExtractTopicsReject /\ UNCHANGED <<schedVars, storeVars, persVars, envVars>>

SpecTopics == InitTopicsSpec /\ [][NextTopics]_vars

\* analyzeReadingHabits on no user and on every user history of the three
\* lengths, with every outcome of the chat completion
InitHabitsSpec ==
    /\ \/ fnIn = [user |-> <<>>]
       \/ \E n \in HabitHistoryLengths : \E h \in [1..n -> HabitArticles] :
              fnIn = [user |-> <<[readingHistory |-> [i \in 1..n |-> [article |-> h[i]]]]>>]
    /\ fnOut = <<>>
    /\ fnPc = "idle"
    /\ SchedIdle
    /\ StoreIdle
    /\ EnvIdle
    /\ PersIdle

NextHabits ==
    \/ AnalyzeReadingHabitsStart /\ UNCHANGED <<schedVars, storeVars, persVars, envVars>>
    \/ \E content \in ChatContents :
           ChatCompletionResolve(content) /\ UNCHANGED <<schedVars, storeVars, persVars, envVars>>
    \/ ChatCompletionReject /\ UNCHANGED <<schedVars, storeVars, persVars, envVars>>

SpecHabits == InitHabitsSpec /\ [][NextHabits]_vars

\* the backend's analyzeAndRankNews on every list of the bounds, with every
\* outcome of the analysis call
InitAnalyzeSpec ==
    /\ \E n \in 0..MaxAnalyzeLen :
           \E ks \in [1..n -> 1..Len(RankKinds)], analyzed \in [1..n -> LastAnalyzedOptions],
              interests \in InterestLists :
                  fnIn = AnalyzeInputs(ks, analyzed, interests)
    /\ fnOut = <<>>
    /\ fnPc = "idle"
    /\ SchedIdle
    /\ StoreIdle
    /\ EnvIdle
    /\ PersIdle

NextAnalyze ==
    \/ AnalyzeAndRankStart /\ UNCHANGED <<schedVars, storeVars, persVars, envVars>>
    \/ \E content \in ChatContents :
           AnalysisResolveText(content) /\ UNCHANGED <<schedVars, storeVars, persVars, envVars>>
    \/ \E result \in AnalysisResultOptions, saved \in BOOLEAN :
           AnalysisResolveResult(result, saved) /\ UNCHANGED <<schedVars, storeVars, persVars, envVars>>
    \/ \E result \in AnalysisResultOptions :
           AnalysisResolveArray(<<result>>) /\ UNCHANGED <<schedVars, storeVars, persVars, envVars>>
    \/ AnalysisReject /\ UNCHANGED <<schedVars, storeVars, persVars, envVars>>

SpecAnalyze == InitAnalyzeSpec /\ [][NextAnalyze]_vars

\* markArticleAsRead requests of one user, served one after the other while
\* the clock advances
InitMarkSpec ==
    /\ \E n \in StoredHistoryLengths : readingHistory = StoredHistory(n)
    /\ now = 0
    /\ FnIdle
    /\ SchedIdle
    /\ StoreIdle
    /\ PersIdle

NextMark ==
    \/ \E articleId \in RequestedArticleIds, outcome \in MarkOutcomes :
           MarkArticleAsRead(articleId, outcome) /\ UNCHANGED <<schedVars, storeVars, persVars>>
    \/ ClockTick /\ UNCHANGED <<schedVars, storeVars, persVars>>

SpecMark == InitMarkSpec /\ [][NextMark]_vars

\* rankArticles applied to one article of every combination of text,
\* relevanceScore, age, flag and interest list
InitAdditiveSpec ==
    /\ \E text \in AdditiveTexts, relevanceScore \in AdditiveRelevanceScores,
          age \in AdditiveAges, flag \in BOOLEAN, interests \in AdditiveInterestLists :
           fnIn = AdditiveInput(text, relevanceScore, age, flag, interests)
    /\ fnOut = <<>>
    /\ fnPc = "idle"
    /\ SchedIdle
    /\ StoreIdle
    /\ EnvIdle
    /\ PersIdle

NextAdditive == CallRankArticles /\ UNCHANGED <<schedVars, storeVars, persVars, envVars>>

SpecAdditive == InitAdditiveSpec /\ [][NextAdditive]_vars

\* a boost step applied to every list of the bounds, in any order of scores,
\* with every preferred list
InitBoostSpec ==
    /\ \E n \in 0..MaxBoostLen : \E f \in [1..n -> BoostFields] :
          \/ \E preferred \in PreferredCategoryLists :
                fnIn = [step |-> "boostPreferredCategories", articles |-> BoostInput(f),
                        preferred |-> preferred]
          \/ \E preferred \in PreferredSourceLists :
                fnIn = [step |-> "boostPreferredSources", articles |-> BoostInput(f),
                        preferred |-> preferred]
    /\ fnOut = <<>>
    /\ fnPc = "idle"
    /\ SchedIdle
    /\ StoreIdle
    /\ EnvIdle
    /\ PersIdle

NextBoost ==
    \/ CallBoostPreferredCategories /\ UNCHANGED <<schedVars, storeVars, persVars, envVars>>
    \/ CallBoostPreferredSources /\ UNCHANGED <<schedVars, storeVars, persVars, envVars>>

SpecBoost == InitBoostSpec /\ [][NextBoost]_vars

\* diversifyNewsFeed applied to every list of the bounds and to ten-article
\* lists in which a category and a source hold exactly 30% or 40%
InitDiversifyWideSpec ==
    /\ \/ \E n \in 0..MaxDivLen : \E f \in [1..n -> DivFields] : fnIn = DivInput(f)
       \/ \E a \in {3, 4} : \E P \in SUBSET (1..Len(WideIdPool)) :
             /\ Cardinality(P) \in {3, 4}
             /\ fnIn = WideInput(a, P)
    /\ fnOut = <<>>
    /\ fnPc = "idle"
    /\ SchedIdle
    /\ StoreIdle
    /\ EnvIdle
    /\ PersIdle

SpecDiversifyWide == InitDiversifyWideSpec /\ [][NextDiversify]_vars

\* ensureBreakingNewsIncluded applied to every list of the bounds with
\* distinct ids, every assignment of the flag and every assignment of scores,
\* in descending order or not
InitBreakingScoredSpec ==
    /\ \E n \in 0..MaxBreakingLen :
          \E flags \in [1..n -> BOOLEAN], scores \in [1..n -> BreakingScores] :
              fnIn = ScoredBreakingInput(flags, scores)
    /\ fnOut = <<>>
    /\ fnPc = "idle"
    /\ SchedIdle
    /\ StoreIdle
    /\ EnvIdle
    /\ PersIdle

SpecBreakingScored == InitBreakingScoredSpec /\ [][NextBreaking]_vars

\* users saving and unsaving the stored articles while days pass and the
\* cleanup runs
InitStoreSpec ==
    /\ \E d1 \in StoredDates, d2 \in StoredDates :
          newsItems = <<StoredItem(StoreArticleIds[1], d1), StoredItem(StoreArticleIds[2], d2)>>
    /\ savedArticles = [u \in StoreUsers |-> <<>>]
    /\ userHistory = <<>>
    /\ deleted = <<>>
    /\ EnvIdle
    /\ FnIdle
    /\ SchedIdle
    /\ PersIdle

NextStore ==
    \/ \E u \in StoreUsers, i \in 1..Len(StoreArticleIds) :
           SaveArticle(u, StoreArticleIds[i])
           /\ UNCHANGED <<fnVars, schedVars, persVars, envVars>>
    \/ \E u \in StoreUsers, i \in 1..Len(StoreArticleIds) :
           RemoveSavedArticle(u, StoreArticleIds[i])
           /\ UNCHANGED <<fnVars, schedVars, persVars, envVars>>
    \/ CleanupOldNews /\ UNCHANGED <<fnVars, schedVars, persVars, envVars>>
    \/ DayPasses /\ UNCHANGED <<fnVars, schedVars, persVars, storeVars>>

SpecStore == InitStoreSpec /\ [][NextStore]_vars

\* a step by which an awaited call of a running cycle returns: the fetch, the
\* analysis of a batch or the delay timer
AwaitReturns ==
    /\ \E k \in 1..Len(calls) :
          \/ \E all \in FetchedLists : FetchResolve(k, all)
          \/ FetchReject(k)
          \/ AnalyzeResolve(k)
          \/ AnalyzeReject(k)
          \/ DelayElapsed(k)
    /\ UNCHANGED <<fnVars, persVars, envVars, storeVars>>

\* the scheduler with at most MaxCycles triggers
NextCycles ==
    \/ Len(calls) < MaxCycles /\ StartScheduler
          /\ UNCHANGED <<fnVars, persVars, envVars, storeVars>>
    \/ Len(calls) < MaxCycles /\ IntervalTick
          /\ UNCHANGED <<fnVars, persVars, envVars, storeVars>>
    \/ Len(calls) < MaxCycles /\ ManualTrigger
          /\ UNCHANGED <<fnVars, persVars, envVars, storeVars>>
    \/ AwaitReturns

\* the scheduler under the assumption that every awaited call returns
SpecAwaitsReturn == Init /\ [][NextCycles]_vars /\ WF_vars(AwaitReturns)

\* a user who has read nothing marks articles as read and asks for the feed
InitReadsSpec ==
    /\ EnvIdle
    /\ FnIdle
    /\ SchedIdle
    /\ StoreIdle
    /\ PersIdle

NextReads ==
    \/ \E articleId \in RequestedArticleIds, outcome \in MarkOutcomes :
           MarkArticleAsRead(articleId, outcome) /\ UNCHANGED <<schedVars, storeVars, persVars>>
    \/ \E feed \in ReadsFeeds, statsRejects \in BOOLEAN :
           GetPersonalizedFeed(feed, statsRejects)
           /\ UNCHANGED <<fnVars, schedVars, storeVars, envVars>>

SpecReads == InitReadsSpec /\ [][NextReads]_vars

(***************************************************************************)
(* C1. The URL filters return exactly the first occurrence of each          *)
(* non-empty URL: records with a missing or empty URL are dropped, no URL   *)
(* occurs twice in the output, and the survivors keep their input order.    *)
(***************************************************************************)
FirstOccurrenceIdx(s) ==
    {i \in 1..Len(s) : ~UrlFalsy(s[i].url) /\ \A j \in 1..(i - 1) : s[j].url # s[i].url}

C1_DedupFirstOccurrences ==
    fnPc # "idle" =>
        \* every survivor is a record of the input, at a first occurrence
        /\ \A k \in 1..Len(fnOut) :
               /\ fnOut[k].n \in FirstOccurrenceIdx(fnIn)
               /\ fnOut[k] = fnIn[fnOut[k].n]
        \* every first occurrence survives
        /\ \A i \in FirstOccurrenceIdx(fnIn) : \E k \in 1..Len(fnOut) : fnOut[k].n = i
        \* no record without a url survives, and no url occurs twice
        /\ \A k \in 1..Len(fnOut) : fnOut[k].url # NoUrl /\ fnOut[k].url # ""
        /\ \A k, l \in 1..Len(fnOut) : k # l => fnOut[k].url # fnOut[l].url
        \* input order is kept
        /\ \A k, l \in 1..Len(fnOut) : k < l => fnOut[k].n < fnOut[l].n

\* a filter ran on a list with a repeated url, an empty url and a missing url,
\* and dropped records
C1_Witness ==
    /\ fnPc # "idle"
    /\ \E i, j \in 1..Len(fnIn) : i < j /\ fnIn[i].url = fnIn[j].url /\ ~UrlFalsy(fnIn[i].url)
    /\ \E i \in 1..Len(fnIn) : fnIn[i].url = ""
    /\ \E i \in 1..Len(fnIn) : fnIn[i].url = NoUrl
    /\ Len(fnOut) >= 2
    /\ Len(fnOut) < Len(fnIn)

(***************************************************************************)
(* C2. Under every interleaving of startup, interval and manual triggers   *)
(* at most one execution of fetchAndAnalyzeNews is inside its fetch/analyze *)
(* body, the guard is set exactly while one is, and a trigger that fires    *)
(* while a refresh is running returns at once: it fetches nothing, analyzes *)
(* nothing and never runs later.                                            *)
(***************************************************************************)
CallsInBody == {k \in 1..Len(calls) : InBody(calls[k])}

C2_OneRefreshAtATime ==
    /\ [](Cardinality(CallsInBody) <= 1)
    /\ [](isFetchingNews <=> CallsInBody # {})
    /\ [](\A k \in 1..Len(calls) :
             calls[k].sawBusy =>
                 /\ calls[k].pc = "skipped"
                 /\ ~calls[k].fetched
                 /\ calls[k].submitted = <<>>)
    /\ [][\A k \in 1..Len(calls) : calls[k].pc = "skipped" => calls'[k] = calls[k]]_vars

\* an interval tick and a manual trigger were both skipped while the startup
\* refresh was analyzing a batch
C2_Witness ==
    /\ Len(calls) = 3
    /\ calls[1].kind = "startup" /\ calls[1].pc = "analyzing"
    /\ \E k \in 2..3 : calls[k].kind = "interval" /\ calls[k].sawBusy /\ calls[k].pc = "skipped"
    /\ \E k \in 2..3 : calls[k].kind = "manual" /\ calls[k].sawBusy /\ calls[k].pc = "skipped"

(***************************************************************************)
(* C3. For a user with a non-empty topicsToAvoid, a list personalizeNewsFeed *)
(* returns holds no article whose title, description or content contains    *)
(* (case-insensitively) an avoid term.                                       *)
(***************************************************************************)
ContainsAvoidTerm(a, topics) ==
    \E j \in 1..Len(topics) :
        /\ topics[j] # NullTopic
        /\ \/ includes(toLowerCase(a.title), toLowerCase(topics[j]))
           \/ includes(toLowerCase(a.description), toLowerCase(topics[j]))
           \/ includes(toLowerCase(a.content), toLowerCase(topics[j]))

NoAvoidedArticle(list, topics) ==
    \A i \in 1..Len(list) : ~ContainsAvoidTerm(list[i], topics)

DistinctIds(list) ==
    /\ \A i \in 1..Len(list) : list[i].id # NoId
    /\ \A i, j \in 1..Len(list) : i # j => list[i].id # list[j].id

WithoutId(list, id) == LET keep(a) == a.id # id IN SelectSeq(list, keep)

BreakingOutsideTop3(list) ==
    /\ Len(list) >= 3
    /\ \E i \in 1..Len(list) : list[i].isBreakingNews
    /\ \A i \in 1..3 : ~list[i].isBreakingNews

C4_BreakingMovedToIndex2 ==
    (fnPc = "ensureBreakingNewsIncluded" /\ DistinctIds(fnIn)) =>
        /\ ~fnOut.threw
        /\ IF BreakingOutsideTop3(fnIn)
           THEN /\ Len(fnOut.list) = Len(fnIn)
                /\ fnOut.list[3].isBreakingNews
                /\ \E i \in 4..Len(fnIn) : fnOut.list[3] = fnIn[i]
                /\ \A i \in 1..Len(fnOut.list) : i # 3 => ~(fnOut.list[i].id = fnOut.list[3].id)
                /\ WithoutId(fnOut.list, fnOut.list[3].id) = WithoutId(fnIn, fnOut.list[3].id)
           ELSE fnOut.list = fnIn

\* two breaking articles at positions 4 and 5: one of them was moved
C4_Witness ==
    /\ fnPc = "ensureBreakingNewsIncluded" /\ DistinctIds(fnIn)
    /\ Len(fnIn) = 5
    /\ BreakingOutsideTop3(fnIn)
    /\ fnIn[4].isBreakingNews /\ fnIn[5].isBreakingNews
    /\ fnOut.list # fnIn

(***************************************************************************)
(* C5. Whenever the list personalizeNewsFeed returns for a user holds a     *)
(* breaking article, one of its first three positions holds a breaking      *)
(* article.                                                                 *)
(***************************************************************************)
BreakingInTop3IfAny(list) ==
    (\E i \in 1..Len(list) : list[i].isBreakingNews) => HasBreakingInTop3(list)

C6_AnyFailureReturnsInput ==
    pPc = "done" =>
        /\ pOut.outcome = "resolved"
        /\ (pOut.threwAt # "none" \/ pOut.statsFailed) => pOut.result = pIn

\* C6 as amended: it never rejects, and it returns the list it was given
\* when the topic filter or the breaking-news placement throws; a failed
\* reading-pattern lookup is no such step, the call goes on with the empty
\* patterns
C6_FallbackReturnsInput ==
    pPc = "done" =>
        /\ pOut.outcome = "resolved"
        /\ pOut.threwAt # "none" => pOut.result = pIn
        /\ (pOut.statsFailed /\ pOut.threwAt = "none") =>
               pOut.result = personalizeTail(pIn, pUser.topicsToAvoid, EmptyPatterns).result

\* the boosts had run and changed the order before the breaking-news step threw
C6_Witness ==
    /\ pPc = "done"
    /\ pOut.threwAt = "breaking"
    /\ Len(pOut.patterns.preferredCategories) > 0
    /\ boostPreferredCategories(pIn, pOut.patterns.preferredCategories) # pIn
    /\ pOut.result = pIn

(***************************************************************************)
(* C7. A failure inside one personalization step is contained to that step: *)
(* the list produced by the completed steps is kept and the remaining steps *)
(* still run on it.                                                         *)
(***************************************************************************)
\* the pipeline with a try/catch around each step, as the claim has it
ContainedResult(articles, topicsToAvoid, patterns) ==
    LET s1 == IF Len(topicsToAvoid) > 0
              THEN filterTopicsToAvoid(articles, topicsToAvoid) ELSE Ok(articles)
        l1 == IF s1.threw THEN articles ELSE s1.list
        l4 == diversifyNewsFeed(
                 boostPreferredSources(
                     boostPreferredCategories(l1, patterns.preferredCategories),
                     patterns.preferredSources))
        s5 == ensureBreakingNewsIncluded(l4)
    IN IF s5.threw THEN l4 ELSE s5.list

\* the claim as stated
C7_FailureContainedPerStep ==
    (pPc = "done" /\ pUser.present /\ Len(pIn) > 0) =>
        pOut.result = ContainedResult(pIn, pUser.topicsToAvoid, pOut.patterns)

\* C7 as amended: only a failure of the reading-statistics lookup is
\* contained (empty patterns, the remaining steps run); a step of the
\* pipeline that throws ends it: no later step starts, the work of the
\* completed steps is dropped and the input list is returned
C7_FailureAbortsPipeline ==
    pPc = "done" =>
        /\ pOut.threwAt = "filter" => (pOut.ran = <<"filter">> /\ pOut.result = pIn)
        /\ pOut.threwAt = "breaking" =>
               (pOut.ran[Len(pOut.ran)] = "breaking" /\ pOut.result = pIn)
        /\ (pOut.statsFailed /\ pOut.threwAt = "none") =>
               /\ pOut.patterns = EmptyPatterns
               /\ pOut.ran[Len(pOut.ran)] = "breaking"
               /\ NoAvoidedArticle(pOut.result, pUser.topicsToAvoid)
               /\ BreakingInTop3IfAny(pOut.result)

\* the topic filter had dropped an article and the boosts had run when the
\* breaking-news step threw: the dropped article is back in the result
C7_Witness ==
    /\ pPc = "done"
    /\ pOut.threwAt = "breaking"
    /\ "filter" \in Range(pOut.ran)
    /\ "boostCategories" \in Range(pOut.ran)
    /\ \E i \in 1..Len(pOut.result) : ContainsAvoidTerm(pOut.result[i], pUser.topicsToAvoid)

(***************************************************************************)
(* C8. On a list of at least 5 scored articles in which a category holds    *)
(* more than 30%, after diversifyNewsFeed every occurrence of that category *)
(* beyond the third (in scan order of the input) has a strictly lower       *)
(* compositeScore than the third occurrence.                                *)
(***************************************************************************)
\* the score the record with this id has in the returned list
ScoreAfter(list, id) ==
    (CHOOSE a \in Range(list) : a.id = id).compositeScore

LaterOccurrencesLower(in, out) ==
    \A i, j \in 1..Len(in) :
        (/\ in[i].category \in DominantCategories(in)
         /\ in[j].category = in[i].category
         /\ CategoryCounterAt(in, i) = 3
         /\ CategoryCounterAt(in, j) > 3) =>
            ScoreAfter(out, in[j].id) < ScoreAfter(out, in[i].id)

SortedDesc(list) ==
    \A i \in 1..(Len(list) - 1) : list[i].compositeScore >= list[i + 1].compositeScore

RankedScore(r) == IF fnPc = "rankArticles" THEN r.compositeScore ELSE r.score

\* out holds every record of in once, the record itself unchanged
IsPermutationOf(in, out) ==
    /\ Len(out) = Len(in)
    /\ {out[k].article.n : k \in 1..Len(out)} = 1..Len(in)
    /\ \A k \in 1..Len(out) : out[k].article = in[out[k].article.n]

StableDescending(out) ==
    \A k \in 1..Len(out) : \A l \in (k + 1)..Len(out) :
        \/ RankedScore(out[k]) > RankedScore(out[l])
        \/ /\ RankedScore(out[k]) = RankedScore(out[l])
           /\ out[k].article.n < out[l].article.n

C10_RecencyMonotoneAndBounded ==
    fnPc = "calculateRecencyScore" =>
        /\ 10 * fnOut.first >= ScoreUnit /\ fnOut.first <= ScoreUnit
        /\ 10 * fnOut.second >= ScoreUnit /\ fnOut.second <= ScoreUnit
        /\ (/\ fnIn.first # <<>>
            /\ fnIn.second # <<>>
            /\ AgeInMinutes(fnIn.first, now) <= AgeInMinutes(fnIn.second, now))
           => fnOut.first >= fnOut.second

\* the minute before and the minute of the 12-hour boundary, the score
\* dropping between them, neither at an end of the range
C10_Witness ==
    /\ fnPc = "calculateRecencyScore"
    /\ fnIn.first # <<>>
    /\ fnIn.second # <<>>
    /\ AgeInMinutes(fnIn.first, now) = 12 * 60 - 1
    /\ AgeInMinutes(fnIn.second, now) = 12 * 60
    /\ fnOut.first > fnOut.second
    /\ fnOut.first < ScoreUnit
    /\ 10 * fnOut.second > ScoreUnit

C13_GroupingIsPartition ==
    fnPc = "groupArticlesByCategory" =>
        /\ \A i \in 1..Len(fnIn) :
               Cardinality({kp \in {<<key, pos>> : key \in DOMAIN fnOut, pos \in 1..MaxGroupLen + 1} :
                               /\ kp[2] <= Len(fnOut[kp[1]])
                               /\ fnOut[kp[1]][kp[2]] = fnIn[i]}) = 1
        /\ \A key \in DOMAIN fnOut :
               /\ fnOut[key] # <<>>
               /\ \A pos \in 1..Len(fnOut[key]) :
                      /\ fnOut[key][pos].n \in 1..Len(fnIn)
                      /\ fnOut[key][pos] = fnIn[fnOut[key][pos].n]
                      /\ key = (IF fnIn[fnOut[key][pos].n].category = <<>>
                                THEN <<"u", "n", "c", "a", "t", "e", "g", "o", "r", "i", "z", "e", "d">>
                                ELSE fnIn[fnOut[key][pos].n].category)
               /\ \A p \in 1..Len(fnOut[key]), q \in 1..Len(fnOut[key]) :
                      p < q => fnOut[key][p].n < fnOut[key][q].n

\* two buckets; the "uncategorized" one holds an article without a category,
\* and the other holds two articles that were not neighbours in the input
C13_Witness ==
    /\ fnPc = "groupArticlesByCategory"
    /\ Cardinality(DOMAIN fnOut) = 2
    /\ <<"u", "n", "c", "a", "t", "e", "g", "o", "r", "i", "z", "e", "d">> \in DOMAIN fnOut
    /\ \E pos \in 1..Len(fnOut[<<"u", "n", "c", "a", "t", "e", "g", "o", "r", "i", "z", "e", "d">>]) :
           fnOut[<<"u", "n", "c", "a", "t", "e", "g", "o", "r", "i", "z", "e", "d">>][pos].category = <<>>
    /\ \E key \in DOMAIN fnOut :
           /\ Len(fnOut[key]) = 2
           /\ fnOut[key][2].n > fnOut[key][1].n + 1

(***************************************************************************)
(* C14. After detectBreakingNews an article is flagged isBreakingNews if   *)
(* and only if (a) it arrived flagged, or (b) its recency score is above   *)
(* 0.85 and its title contains an urgency keyword, in any letter case, or  *)
(* (c) its score is above 0.9; an article that arrives flagged is still    *)
(* flagged afterwards.                                                     *)
(***************************************************************************)
C14_FlaggedIffRule ==
    fnPc = "detectBreakingNews" =>
        \A i \in 1..Len(fnIn) :
            /\ fnOut[i].isBreakingNews = <<TRUE>>
                   <=> \/ fnIn[i].isBreakingNews = <<TRUE>>
                       \/ /\ 100 * calculateRecencyScore(fnIn[i].publishedAt, now) > 85 * ScoreUnit
                          /\ \E kw \in {<<"b", "r", "e", "a", "k", "i", "n", "g">>, <<"u", "r", "g", "e", "n", "t">>, <<"j", "u", "s", "t", " ", "i", "n">>, <<"a", "l", "e", "r", "t">>, <<"u", "p", "d", "a", "t", "e">>} :
                                 includes(toLowerCase(fnIn[i].title), kw)
                       \/ fnIn[i].score > 9 * ScoreUnit
            /\ fnIn[i].isBreakingNews = <<TRUE>> => fnOut[i].isBreakingNews = <<TRUE>>

\* an article that arrived flagged, a day old and scored 0.5, leaves
\* detectBreakingNews unflagged
C14_Witness ==
    /\ fnPc = "detectBreakingNews"
    /\ fnIn[1].isBreakingNews = <<TRUE>>
    /\ fnIn[1].publishedAt = <<0 - 30 * 60>>
    /\ fnIn[1].score = 5 * ScoreUnit
    /\ fnOut[1].isBreakingNews = <<FALSE>>

(***************************************************************************)
(* C15. extractTopicsOfInterest returns at most 10 tags of the window of   *)
(* the 50 most recent history entries: the most frequent ones, ordered by  *)
(* descending number of occurrences across the window, tags of equal count *)
(* in the order of their first appearance in the window; an empty history  *)
(* yields an empty list.                                                   *)
(***************************************************************************)
\* the tags of the window's entries, in reading order
WindowTags(stored) ==
    Concat([i \in 1..Min(50, Len(stored)) |->
               IF stored[i].article = NoArticle THEN <<>> ELSE stored[i].article[1].tags])

Occurrences(tag, flat) == Cardinality({p \in 1..Len(flat) : flat[p] = tag})

FirstAppearance(tag, flat) == Least({p \in 1..Len(flat) : flat[p] = tag})

\* a ranks before b: more occurrences, or as many and seen first
RanksBefore(a, b, flat) ==
    \/ Occurrences(a, flat) > Occurrences(b, flat)
    \/ /\ Occurrences(a, flat) = Occurrences(b, flat)
       /\ FirstAppearance(a, flat) < FirstAppearance(b, flat)

C15_TopTagsByCountThenFirstSeen ==
    fnPc = "extractTopicsOfInterest" =>
        LET flat == WindowTags(fnIn)
        IN /\ Len(fnOut) = Min(10, Cardinality(Range(flat)))
           /\ Range(fnOut) \subseteq Range(flat)
           /\ \A p \in 1..Len(fnOut), q \in 1..Len(fnOut) :
                  p < q => RanksBefore(fnOut[p], fnOut[q], flat)
           /\ \A t \in Range(flat) \ Range(fnOut) :
                  \A p \in 1..Len(fnOut) : RanksBefore(fnOut[p], t, flat)
           /\ fnIn = <<>> => fnOut = <<>>

\* the most recent entry is tagged "ai", the one before it "2024": one
\* occurrence each, and "2024" is returned first
C15_Witness ==
    /\ fnPc = "extractTopicsOfInterest"
    /\ Len(fnIn) = 2
    /\ fnIn[1].article = <<[tags |-> <<<<"a", "i">>>>]>>
    /\ fnIn[2].article = <<[tags |-> <<<<"2", "0", "2", "4">>>>]>>
    /\ fnOut = <<<<"2", "0", "2", "4">>, <<"a", "i">>>>

(***************************************************************************)
(* C16. When the interest suggestion call fails or returns content that    *)
(* cannot be parsed, analyzeReadingHabits returns the frequency-based      *)
(* result, the top tags of the user's reading history, and not nothing.    *)
(***************************************************************************)
C16_FailureDegradesToTopTags ==
    fnPc \in {"analyzeReadingHabits failed", "analyzeReadingHabits unparseable"} =>
        fnOut = extractTopicsOfInterest(fnIn.user[1].readingHistory)

\* five entries of articles tagged "ai", the suggestion call rejects, and
\* analyzeReadingHabits returns the empty list
C16_Witness ==
    /\ fnPc = "analyzeReadingHabits failed"
    /\ \A i \in 1..5 : fnIn.user[1].readingHistory[i].article = <<[tags |-> <<<<"a", "i">>>>]>>
    /\ extractTopicsOfInterest(fnIn.user[1].readingHistory) = <<<<"a", "i">>>>
    /\ fnOut = <<>>

(***************************************************************************)
(* C17. When the external analysis call throws or returns content that     *)
(* cannot be parsed, analyzeAndRankNews does not reject and returns every  *)
(* input article ranked by the additive score: each returned article       *)
(* carries its compositeScore and the list is in descending compositeScore *)
(* order.                                                                  *)
(***************************************************************************)
C17_AnalysisFailureStillRanks ==
    fnPc \in {"analyzeAndRankNews failed", "analyzeAndRankNews unparseable"} =>
        /\ Len(fnOut) = Len(fnIn.articles)
        /\ \A i \in 1..Len(fnIn.articles) : \E k \in 1..Len(fnOut) :
               "article" \in DOMAIN fnOut[k] /\ fnOut[k].article = fnIn.articles[i]
        /\ \A k \in 1..Len(fnOut) :
               /\ "compositeScore" \in DOMAIN fnOut[k]
               /\ fnOut[k].compositeScore
                      = AdditiveScore(fnOut[k].article, fnIn.userInterests, now)
        /\ \A k \in 1..(Len(fnOut) - 1) :
               fnOut[k].compositeScore >= fnOut[k + 1].compositeScore

\* the analysis call rejects for two articles, the older of which has the
\* higher additive score: the newer one is returned first, and neither
\* carries a compositeScore
C17_Witness ==
    /\ fnPc = "analyzeAndRankNews failed"
    /\ Len(fnOut) = 2
    /\ fnOut[1].publishedAt[1] > fnOut[2].publishedAt[1]
    /\ AdditiveScore(fnOut[1], fnIn.userInterests, now)
           < AdditiveScore(fnOut[2], fnIn.userInterests, now)
    /\ \A k \in 1..2 : "compositeScore" \notin DOMAIN fnOut[k]

(***************************************************************************)
(* C18. After any sequence of markArticleAsRead requests the user's        *)
(* readingHistory holds at most 100 entries and is ordered most recent     *)
(* first; and a request leaves the history as it was or puts one entry at  *)
(* its head, removing an earlier entry only when the limit is exceeded,    *)
(* and then the oldest one, at the end.                                    *)
(***************************************************************************)
HistoryCappedAndOrdered ==
    /\ Len(readingHistory) <= 100
    /\ \A i \in 1..Len(readingHistory), j \in 1..Len(readingHistory) :
           i < j => readingHistory[i].readAt >= readingHistory[j].readAt

OnlyOldestEvicted ==
    \/ readingHistory' = readingHistory
    \/ /\ Len(readingHistory') = Min(100, Len(readingHistory) + 1)
       /\ \A k \in 2..Len(readingHistory') : readingHistory'[k] = readingHistory[k - 1]

C18_HistoryCappedNewestFirst ==
    [](HistoryCappedAndOrdered) /\ [][OnlyOldestEvicted]_vars

\* a full history after a request for an article never read: the new entry
\* is at the head, the entry of article 100, the oldest, is gone, and the
\* 99 newer ones have moved down by one
C18_Witness ==
    /\ fnPc = "markArticleAsRead"
    /\ Len(readingHistory) = 100
    /\ readingHistory[1].article = 101
    /\ readingHistory[1].readAt = now
    /\ readingHistory[100].article = 99
    /\ \A k \in 1..100 : readingHistory[k].article # 100

(***************************************************************************)
(* C19. For every article with a relevanceScore r of 0..100, 0 included,   *)
(* rankArticles assigns compositeScore = r + ageBonus + 5 m + 15 b:        *)
(* ageBonus is 20, 15, 10, 5 or 0 for an age below 2, 6, 12, 24 hours or   *)
(* above; m is the number of user interests that occur, in any letter      *)
(* case, in the article's title, description or category; b is 1 iff the   *)
(* article is flagged breaking.                                            *)
(***************************************************************************)
\* the interests that occur in the title, the description or the category
InterestsOccurring(article, interests) ==
    Cardinality({j \in 1..Len(interests) :
                    \/ includes(toLowerCase(article.title), toLowerCase(interests[j]))
                    \/ includes(toLowerCase(article.description), toLowerCase(interests[j]))
                    \/ includes(toLowerCase(article.category), toLowerCase(interests[j]))})

C19_AdditiveFormula ==
    fnPc = "rankArticles" =>
        \A k \in 1..Len(fnOut) :
            LET a == fnOut[k].article
                age == now - a.publishedAt[1]
            IN fnOut[k].compositeScore
                   = a.relevanceScore
                     + (IF age < 120 THEN 20 ELSE IF age < 360 THEN 15
                        ELSE IF age < 720 THEN 10 ELSE IF age < 1440 THEN 5 ELSE 0)
                     + 5 * InterestsOccurring(a, fnIn.userInterests)
                     + (IF a.isBreakingNews THEN 15 ELSE 0)

\* a fresh article of the category business, relevanceScore 50, for a user
\* interested in "business": compositeScore 70, the interest not counted
C19_Witness ==
    /\ fnPc = "rankArticles"
    /\ fnIn.userInterests = <<<<"b", "u", "s", "i", "n", "e", "s", "s">>>>
    /\ fnOut[1].article.category = <<"b", "u", "s", "i", "n", "e", "s", "s">>
    /\ fnOut[1].article.title = <<"M", "a", "r", "k", "e", "t">>
    /\ fnOut[1].article.relevanceScore = 50
    /\ fnOut[1].article.publishedAt = <<0>>
    /\ ~fnOut[1].article.isBreakingNews
    /\ fnOut[1].compositeScore = 70

(***************************************************************************)
(* C20. calculateRelevanceScore returns 0.5 when the user has no           *)
(* categories; 0.9 whenever the article's category matches a user-         *)
(* preferred category; otherwise min(1.0, 0.3 + 0.1 k), k the number of    *)
(* distinct dictionary keywords of the user's categories that occur, in    *)
(* any letter case, in title + description + content; and 0.3 for an       *)
(* article with empty text.                                                *)
(***************************************************************************)
\* the article has no title, no description and no content
EmptyText(article) ==
    article.title = <<>> /\ article.description = <<>> /\ article.content = <<>>

\* title, description and content joined and lower-cased
SearchedText(article) ==
    toLowerCase(article.title \o <<" ">> \o article.description \o <<" ">> \o article.content)

\* the article's lower-cased category is one of the user's categories
CategoryMatches(article, userCategories) ==
    /\ article.category # <<>>
    /\ \E i \in 1..Len(userCategories) : userCategories[i] = toLowerCase(article.category)

\* the distinct dictionary keywords of the user's categories found in the text
DistinctKeywordsFound(article, userCategories) ==
    Cardinality({keyword \in UNION {Range(getCategoryKeywords(userCategories[i])) :
                                        i \in 1..Len(userCategories)} :
                    includes(SearchedText(article), keyword)})

\* the keywords found, counted once for each entry of the user's list whose
\* dictionary holds them
KeywordsFoundPerEntry(article, userCategories) ==
    Cardinality({p \in UNION {{<<i, j>> : j \in 1..Len(getCategoryKeywords(userCategories[i]))} :
                                  i \in 1..Len(userCategories)} :
                    includes(SearchedText(article),
                             getCategoryKeywords(userCategories[p[1]])[p[2]])})

\* C20 as stated: the category rule applies whenever the category matches,
\* empty text is the keyword rule with no keyword found, and a keyword is
\* counted once
C20_RelevanceAsStated ==
    fnPc = "analyzeAndRankNews" =>
        LET article == fnIn.article
            userCategories == fnIn.userPreferences.categories
            relevance == fnOut.analysisDetails.relevance
        IN IF Len(userCategories) = 0 THEN relevance * 2 = ScoreUnit
           ELSE IF CategoryMatches(article, userCategories) THEN relevance * 10 = 9 * ScoreUnit
           ELSE IF EmptyText(article) THEN relevance * 10 = 3 * ScoreUnit
           ELSE relevance * 10
                    = Min(10, 3 + DistinctKeywordsFound(article, userCategories)) * ScoreUnit

\* C20, amended: the rules apply in the order no categories, empty text,
\* category match, keywords, and a keyword is counted once for each entry of
\* the user's list whose dictionary holds it
C20_RelevanceByPrecedence ==
    fnPc = "analyzeAndRankNews" =>
        LET article == fnIn.article
            userCategories == fnIn.userPreferences.categories
            relevance == fnOut.analysisDetails.relevance
        IN IF Len(userCategories) = 0 THEN relevance * 2 = ScoreUnit
           ELSE IF EmptyText(article) THEN relevance * 10 = 3 * ScoreUnit
           ELSE IF CategoryMatches(article, userCategories) THEN relevance * 10 = 9 * ScoreUnit
           ELSE relevance * 10
                    = Min(10, 3 + KeywordsFoundPerEntry(article, userCategories)) * ScoreUnit

\* an article without text whose category the user prefers is scored 0.3
C20_Witness ==
    /\ fnPc = "analyzeAndRankNews"
    /\ EmptyText(fnIn.article)
    /\ fnIn.article.category = <<"t", "e", "c", "h", "n", "o", "l", "o", "g", "y">>
    /\ fnIn.userPreferences.categories = <<<<"t", "e", "c", "h", "n", "o", "l", "o", "g", "y">>>>
    /\ fnOut.analysisDetails.relevance * 10 = 3 * ScoreUnit

(***************************************************************************)
(* C21. boostPreferredCategories adds exactly 10 to the compositeScore of  *)
(* every article whose category is among the preferred categories, and     *)
(* boostPreferredSources adds exactly 5 to every article whose source name *)
(* is among the preferred sources; each leaves the scores of all other     *)
(* articles unchanged, keeps the same set of articles, and returns them in *)
(* descending compositeScore order.                                        *)
(***************************************************************************)
\* what the step adds to an article of the input
BoostOwed(article) ==
    IF fnIn.step = "boostPreferredCategories"
    THEN (IF \E j \in 1..Len(fnIn.preferred) : fnIn.preferred[j] = article.category
          THEN 10 ELSE 0)
    ELSE (IF \E j \in 1..Len(fnIn.preferred) : fnIn.preferred[j] = article.source
          THEN 5 ELSE 0)

C21_BoostsAddFixedBonusAndSort ==
    fnPc \in {"boostPreferredCategories", "boostPreferredSources"} =>
        /\ Len(fnOut) = Len(fnIn.articles)
        /\ \A i \in 1..Len(fnIn.articles) :
              \E k \in 1..Len(fnOut) :
                  fnOut[k] = [fnIn.articles[i] EXCEPT
                                 !.compositeScore = @ + BoostOwed(fnIn.articles[i])]
        /\ \A k \in 1..Len(fnOut) : \A l \in 1..Len(fnOut) :
              k < l => fnOut[k].compositeScore >= fnOut[l].compositeScore

\* a boosted article overtook an article that was ahead of it
C21_Witness ==
    /\ fnPc \in {"boostPreferredCategories", "boostPreferredSources"}
    /\ Len(fnOut) >= 2
    /\ fnIn.articles[1].compositeScore > fnIn.articles[2].compositeScore
    /\ BoostOwed(fnIn.articles[1]) = 0
    /\ BoostOwed(fnIn.articles[2]) > 0
    /\ fnOut[1].id = fnIn.articles[2].id
    /\ fnOut[1].compositeScore = fnIn.articles[2].compositeScore + BoostOwed(fnIn.articles[2])

(***************************************************************************)
(* C22. diversifyNewsFeed changes scores only as follows: a list of fewer  *)
(* than 5 articles, or one in which no category and no source holds        *)
(* strictly more than 30% of the list, is returned unchanged; otherwise    *)
(* each article loses 5 iff it is the 4th or later occurrence (in scan     *)
(* order) of a dominant category and loses 3 iff it is the 3rd or later    *)
(* occurrence of a dominant source, all other scores are untouched, no     *)
(* article is added or removed, and the result is in descending            *)
(* compositeScore order.                                                   *)
(***************************************************************************)
\* the category of article i is present and holds more than 30% of the list
InDominantCategory(list, i) ==
    /\ list[i].category # ""
    /\ 10 * Cardinality({j \in 1..Len(list) : list[j].category = list[i].category})
           > 3 * Len(list)

InDominantSource(list, i) ==
    /\ list[i].source # ""
    /\ 10 * Cardinality({j \in 1..Len(list) : list[j].source = list[i].source})
           > 3 * Len(list)

\* what article i loses: 5 as the 4th or later of a dominant category, 3 as
\* the 3rd or later of a dominant source
PenaltyOwed(list, i) ==
    (IF /\ InDominantCategory(list, i)
        /\ Cardinality({j \in 1..(i - 1) : list[j].category = list[i].category}) >= 3
     THEN 5 ELSE 0)
    + (IF /\ InDominantSource(list, i)
          /\ Cardinality({j \in 1..(i - 1) : list[j].source = list[i].source}) >= 2
       THEN 3 ELSE 0)

C22_DiversifyPenaltiesOnly ==
    fnPc = "diversifyNewsFeed" =>
        IF \/ Len(fnIn) < 5
           \/ \A i \in 1..Len(fnIn) :
                 ~InDominantCategory(fnIn, i) /\ ~InDominantSource(fnIn, i)
        THEN fnOut = fnIn
        ELSE /\ Len(fnOut) = Len(fnIn)
             /\ \A i \in 1..Len(fnIn) :
                   \E k \in 1..Len(fnOut) :
                       fnOut[k] = [fnIn[i] EXCEPT
                                      !.compositeScore = @ - PenaltyOwed(fnIn, i)]
             /\ \A k \in 1..Len(fnOut) : \A l \in 1..Len(fnOut) :
                   k < l => fnOut[k].compositeScore >= fnOut[l].compositeScore

\* five articles of one category, the first three of one source: the third
\* lost 3, the fourth lost 5 and was overtaken by the fifth, which lost 5 too
C22_Witness ==
    /\ fnPc = "diversifyNewsFeed"
    /\ Len(fnIn) = 5
    /\ \A i \in 1..5 : fnIn[i].category = "A"
    /\ \A i \in 1..5 : fnIn[i].source = (IF i <= 3 THEN "S" ELSE "")
    /\ fnIn[4].compositeScore = 10 /\ fnIn[5].compositeScore = 16
    /\ PenaltyOwed(fnIn, 2) = 0 /\ PenaltyOwed(fnIn, 3) = 3 /\ PenaltyOwed(fnIn, 4) = 5
    /\ \E k \in 1..5 : fnOut[k].id = fnIn[3].id
                       /\ fnOut[k].compositeScore = fnIn[3].compositeScore - 3
    /\ \E k, l \in 1..5 : /\ k < l
                          /\ fnOut[k].id = fnIn[5].id /\ fnOut[k].compositeScore = 11
                          /\ fnOut[l].id = fnIn[4].id /\ fnOut[l].compositeScore = 5

(***************************************************************************)
(* C23. In one refresh cycle every deduplicated article is submitted to    *)
(* analysis exactly once, in consecutive input-order batches of exactly 10 *)
(* articles (the last batch may be smaller); batches are processed         *)
(* strictly one after another, and a batch whose analysis fails does not   *)
(* prevent any later batch from being analyzed.                            *)
(***************************************************************************)
\* the batches submitted so far are uniqueArticles cut into tens, from its
\* start and without a gap
ConsecutiveBatches(c) ==
    /\ \A b \in 1..Len(c.submitted) :
          /\ Len(c.submitted[b]) >= 1
          /\ Len(c.submitted[b]) <= 10
          /\ b < Len(c.submitted) => Len(c.submitted[b]) = 10
          /\ \A j \in 1..Len(c.submitted[b]) :
                /\ 10 * (b - 1) + j <= Len(c.uniq)
                /\ c.submitted[b][j] = c.uniq[10 * (b - 1) + j]
    /\ \A b \in 1..(Len(c.submitted) - 1) : 10 * b < Len(c.uniq)

\* a cycle whose fetch resolved has, at its end, submitted every article,
\* whichever batches failed: with ConsecutiveBatches, the batches cover
\* uniqueArticles position by position, and no article is in it twice
AllSubmittedAtEnd(c) ==
    (c.pc = "done" /\ ~c.fetchErr) =>
        /\ Len(c.submitted) = 0 => Len(c.uniq) = 0
        /\ Len(c.submitted) > 0 =>
               10 * (Len(c.submitted) - 1) + Len(c.submitted[Len(c.submitted)]) = Len(c.uniq)
        /\ \A m \in 1..Len(c.uniq) : \A n \in 1..Len(c.uniq) :
               c.uniq[m] = c.uniq[n] => m = n

\* a batch is submitted only once the analysis of the one before it has
\* settled: by a step of a call that is not awaiting an analysis, one batch
\* at a time
OneBatchAtATime ==
    \A k \in 1..Len(calls) :
        Len(calls'[k].submitted) # Len(calls[k].submitted) =>
            /\ Len(calls'[k].submitted) = Len(calls[k].submitted) + 1
            /\ calls[k].pc # "analyzing" \/ calls[k].i \in calls'[k].failed
            /\ calls'[k].pc = "analyzing"

C23_BatchesOfTenInOrder ==
    /\ [](\A k \in 1..Len(calls) :
             ConsecutiveBatches(calls[k]) /\ AllSubmittedAtEnd(calls[k]))
    /\ [][OneBatchAtATime]_vars

\* eleven articles: the first batch of ten failed, the batch of one was
\* analyzed all the same
C23_Witness ==
    \E k \in 1..Len(calls) :
        /\ calls[k].pc = "done"
        /\ Len(calls[k].uniq) = 11
        /\ Len(calls[k].submitted) = 2
        /\ Len(calls[k].submitted[1]) = 10
        /\ Len(calls[k].submitted[2]) = 1
        /\ calls[k].failed = {0}

(***************************************************************************)
(* C24. When the breaking-news guarantee fires, the article it moves to    *)
(* index 2 is the breaking article with the highest composite score among  *)
(* all breaking articles of the list, and at most one article is moved per *)
(* ranking pass even when several breaking articles exist.                 *)
(***************************************************************************)
\* the guarantee fired: the returned list is not the list that was given
GuaranteeFired ==
    /\ fnPc = "ensureBreakingNewsIncluded"
    /\ ~fnOut.threw
    /\ fnOut.list # fnIn

\* the article at index 2 is the only one that changed its place
OnlyIndex2Moved ==
    /\ Len(fnOut.list) = Len(fnIn)
    /\ fnOut.list[3].isBreakingNews
    /\ \E i \in 4..Len(fnIn) : fnOut.list[3] = fnIn[i]
    /\ WithoutId(fnOut.list, fnOut.list[3].id) = WithoutId(fnIn, fnOut.list[3].id)

\* no breaking article of the list has a higher score than the one at index 2
HighestScoredBreakingAtIndex2 ==
    \A i \in 1..Len(fnIn) :
        fnIn[i].isBreakingNews => fnIn[i].compositeScore <= fnOut.list[3].compositeScore

ResolvedManualCalls ==
    {k \in 1..Len(calls) : calls[k].kind = "manual" /\ calls[k].pc \in {"skipped", "done"}}

\* the cycle the call started met no error: the fetch resolved and no batch's
\* analysis rejected
CycleSucceeded(c) == ~c.sawBusy /\ c.fetched /\ ~c.fetchErr /\ c.failed = {}

C25_ManualUpdateReportsOutcome ==
    \A k \in ResolvedManualCalls :
        /\ calls[k].result \in {"true", "false"}
        /\ calls[k].result = "true" <=> CycleSucceeded(calls[k])
        /\ calls[k].sawBusy => (~calls[k].fetched /\ calls[k].submitted = <<>>)

\* a manual update whose fetch rejected resolved to true
C25_Witness ==
    \E k \in ResolvedManualCalls :
        /\ ~calls[k].sawBusy
        /\ calls[k].fetchErr
        /\ calls[k].submitted = <<>>
        /\ calls[k].result = "true"

(***************************************************************************)
(* C26. After any sequence of saveArticle, removeSavedArticle and          *)
(* cleanupOldNews operations, cleanupOldNews never deletes an article that *)
(* is currently in some user's savedArticles; it deletes only articles     *)
(* older than 30 days that no user has saved.                              *)
(***************************************************************************)
C26_CleanupSparesSavedArticles ==
    \A i \in 1..Len(deleted) :
        /\ deleted[i].savedBy = {}
        /\ deleted[i].publishedAt < deleted[i].at - 30 * 24 * 60

\* an article a user had saved, and still lists, was deleted
C26_Witness ==
    \E i \in 1..Len(deleted) :
        /\ "u1" \in deleted[i].savedBy
        /\ \E j \in 1..Len(savedArticles["u1"]) : savedArticles["u1"][j] = deleted[i].id
        /\ \A k \in 1..Len(newsItems) : newsItems[k].id # deleted[i].id
        /\ deleted[i].publishedAt < deleted[i].at - 30 * 24 * 60

(***************************************************************************)
(* C27. Every refresh cycle that starts eventually clears the              *)
(* isFetchingNews guard, whether the fetch or any analysis batch succeeds  *)
(* or throws (assuming the awaited external calls return), so a trigger    *)
(* arriving after the cycle ended is never skipped because of a stale      *)
(* guard.                                                                  *)
(***************************************************************************)
\* the k-th trigger started a cycle that is still running
CycleRunning(k) == k <= Len(calls) /\ InBody(calls[k])

\* the k-th trigger's cycle has ended and the guard is clear
CycleEndedGuardClear(k) ==
    k <= Len(calls) /\ calls[k].pc = "done" /\ ~isFetchingNews

\* a trigger is skipped only while a cycle is running
SkippedOnlyWhileRunning ==
    Len(calls') > Len(calls) =>
        (calls'[Len(calls')].sawBusy => \E k \in 1..Len(calls) : InBody(calls[k]))

C27_GuardEventuallyCleared ==
    /\ \A k \in 1..MaxCycles : CycleRunning(k) ~> CycleEndedGuardClear(k)
    /\ [](isFetchingNews => \E k \in 1..Len(calls) : InBody(calls[k]))
    /\ [][SkippedOnlyWhileRunning]_vars

\* a cycle of two batches, the first of which failed, has ended, and the
\* trigger that came after it started a cycle of its own
C27_Witness ==
    /\ Len(calls) = 2
    /\ calls[1].pc = "done"
    /\ Len(calls[1].submitted) = 2
    /\ calls[1].failed = {0}
    /\ ~calls[2].sawBusy /\ calls[2].fetched
    /\ isFetchingNews

(***************************************************************************)
(* C28. For every input list of articles with distinct ids,                *)
(* personalizeNewsFeed neither loses nor duplicates articles: every        *)
(* returned article corresponds to an input article, no input article      *)
(* appears twice in the output, and every input article that contains no   *)
(* avoid term appears exactly once in the output.                          *)
(***************************************************************************)
\* the positions of the returned list that hold the article with this id
PlacesOf(id, list) == {k \in 1..Len(list) : list[k].id = id}

\* the returned article is the input article, its compositeScore apart
SameArticle(out, in) ==
    [out EXCEPT !.compositeScore = 0] = [in EXCEPT !.compositeScore = 0]

C28_NoArticleLostOrDuplicated ==
    (pPc = "done" /\ DistinctIds(pIn)) =>
        /\ pOut.outcome = "resolved"
        /\ \A k \in 1..Len(pOut.result) :
              \E i \in 1..Len(pIn) : SameArticle(pOut.result[k], pIn[i])
        /\ \A i \in 1..Len(pIn) :
              /\ Cardinality(PlacesOf(pIn[i].id, pOut.result)) <= 1
              /\ ~ContainsAvoidTerm(pIn[i], pUser.topicsToAvoid) =>
                     Cardinality(PlacesOf(pIn[i].id, pOut.result)) = 1

\* five articles with distinct ids: the one with the avoid term was dropped,
\* the four others came back once each, a breaking one moved up to index 2
C28_Witness ==
    /\ pPc = "done" /\ DistinctIds(pIn)
    /\ Len(pIn) = 5
    /\ pOut.threwAt = "none"
    /\ ContainsAvoidTerm(pIn[1], pUser.topicsToAvoid)
    /\ \A i \in 2..4 : ~pIn[i].isBreakingNews
    /\ pIn[5].isBreakingNews /\ ~ContainsAvoidTerm(pIn[5], pUser.topicsToAvoid)
    /\ Len(pOut.result) = 4
    /\ pOut.result[3].id = pIn[5].id
    /\ \A i \in 2..5 : Cardinality(PlacesOf(pIn[i].id, pOut.result)) = 1

(***************************************************************************)
(* C29. The reads recorded by markArticleAsRead are the reading history    *)
(* that drives the boosts: after a user has marked articles of category C  *)
(* as read (and C is among that user's 5 most-read categories),            *)
(* getUserReadingPatterns reports C in preferredCategories and the next    *)
(* personalizeNewsFeed for that user adds the +10 category boost to        *)
(* articles of category C.                                                 *)
(***************************************************************************)
\* the categories of the articles the user has marked as read; there are at
\* most two, so each is among the five most read
CategoriesRead == {StoredCategory(readingHistory[k].article) : k \in 1..Len(readingHistory)}

\* a feed request that was answered with the statistics at hand reported
\* every category read and added 10 to the feed's articles of it
ReadsDriveBoost ==
    (pPc = "idle" /\ pPc' = "done" /\ ~pOut'.statsFailed) =>
        \A c \in CategoriesRead :
            /\ \E j \in 1..Len(pOut'.patterns.preferredCategories) :
                  pOut'.patterns.preferredCategories[j] = c
            /\ \A i \in 1..Len(pIn') :
                  pIn'[i].category = c =>
                      \E k \in 1..Len(pOut'.result) :
                          /\ pOut'.result[k].id = pIn'[i].id
                          /\ pOut'.result[k].compositeScore = pIn'[i].compositeScore + 10

C29_ReadsDriveCategoryBoost == [][ReadsDriveBoost]_vars

\* the user had marked an article of category "A" as read, then asked for a
\* feed with an article of that category: no preferred category, no boost
C29_Witness ==
    /\ pPc = "done"
    /\ pUser.hasHistory
    /\ ~pOut.statsFailed
    /\ Len(readingHistory) > 0
    /\ StoredCategory(readingHistory[Len(readingHistory)].article) = "A"
    /\ pIn[2].category = "A"
    /\ pOut.patterns.preferredCategories = <<>>
    /\ pOut.result = pIn

(***************************************************************************)
(* C30. When the analysis service answers with a valid JSON array of       *)
(* per-article results in the structure the prompt requests,               *)
(* analyzeAndRankNews applies each result to the article with the matching *)
(* id (relevanceScore, tags, isBreakingNews, sentiment, lastAnalyzedAt are *)
(* updated and persisted), and an article whose lastAnalyzedAt is less     *)
(* than 12 hours old is not sent for analysis again.                       *)
(***************************************************************************)
\* the article was analyzed less than 12 hours ago
AnalyzedRecently(article) ==
    article.lastAnalyzedAt # <<>> /\ now - article.lastAnalyzedAt[1] < 12 * 60

\* the returned copy of the input article with this _id
ReturnedArticle(n) ==
    (CHOOSE e \in Range(fnOut.returned) : e.article.n = n).article

\* a result with a score and the breaking flag set is taken over as it is
ResultApplied(result, article) ==
    /\ result.relevanceScore # 0 => article.relevanceScore = result.relevanceScore
    /\ result.isBreakingNews => article.isBreakingNews
    /\ article.lastAnalyzedAt = <<now>>

C30_ArrayResultsApplied ==
    /\ fnPc = "awaitAnalysis" =>
           \E i \in 1..Len(fnIn.articles) : ~AnalyzedRecently(fnIn.articles[i])
    /\ fnPc = "analyzeAndRankNews array" =>
           \A i \in 1..Len(fnIn.articles) :
               IF AnalyzedRecently(fnIn.articles[i])
               THEN ReturnedArticle(fnIn.articles[i].n) = fnIn.articles[i]
               ELSE \A j \in 1..Len(fnOut.results) :
                        fnOut.results[j].id = fnIn.articles[i].n =>
                            ResultApplied(fnOut.results[j], ReturnedArticle(fnIn.articles[i].n))

\* the answer was an array with a result of score 85 for the first article,
\* never analyzed before: the article came back as it went in
C30_Witness ==
    /\ fnPc = "analyzeAndRankNews array"
    /\ fnIn.articles[1].lastAnalyzedAt = <<>>
    /\ fnIn.articles[1].relevanceScore # 85
    /\ fnOut.results = <<[id |-> 1, relevanceScore |-> 85, isBreakingNews |-> TRUE]>>
    /\ ReturnedArticle(1) = fnIn.articles[1]

=============================================================================
